---- MODULE Spec2Model ----
(***************************************************************************)
(* Menu-to-dish resolution pipeline of the MenuWise backend.               *)
(*                                                                         *)
(*   Spec       one run of analyzeKoreanMenu (services/openai.ts) against  *)
(*              the koreanFoods table (DatabaseStorage), one step per      *)
(*              awaited call.                                              *)
(*   SpecImage  the image waterfall: UnsplashService.searchKoreanFood on   *)
(*              top of KoreanImageService.searchKoreanFoodImage, applied   *)
(*              to every combination of provider answers.                  *)
(*   SpecRoute  POST /api/analyze-menu behind checkUsageLimit, one request *)
(*              after the other.                                           *)
(*   SpecAdapters  the query loop of one image adapter with its scoring.   *)
(*   SpecOverlap   analyze-menu requests served by two handlers at once.   *)
(*   SpecWebhook   POST /api/stripe-webhook, one delivery after the other. *)
(*   SpecProxy     one request to GET /api/proxy-image.                    *)
(*                                                                         *)
(* Optional values (undefined / null in the source) are sequences of       *)
(* length 0 or 1.  Strings that the code splits at '|' are sequences of    *)
(* their '|'-separated segments.  Money is counted in nano-dollars and     *)
(* confidence in tenths, so that all arithmetic is on integers.            *)
(***************************************************************************)
EXTENDS Integers, Sequences, FiniteSets, TLC

VARIABLES
    foods,            \* koreanFoods table: rows in insertion order
    pc,               \* position of analyzeKoreanMenu in its state machine
    ocrResult,        \* value returned by extractKoreanFoodNames (optional)
    idx,              \* position of the for-of loop in extractedNames
    step,             \* awaited call the loop body is waiting for
    foodData,         \* row returned by findKoreanFood (optional)
    aiData,           \* value returned by getFoodDetailsFromAI (optional)
    image,            \* imageUrl and imageAccuracy parsed from imageResult (optional)
    dishes,           \* const dishes: DetectedDish[]
    totalTokenUsage,  \* let totalTokenUsage (alias of ocrResult.tokenUsage)
    result,           \* value returned by analyzeKoreanMenu (optional)
    thrown,           \* message of the Error analyzeKoreanMenu threw (optional)
    trace,            \* history of the external calls made by the run
    wfEnv,            \* provider answers given to one image waterfall
    wfOut,            \* outcome of that waterfall (optional)
    menuAnalyses,     \* menu_analyses table: rows in insertion order
    users,            \* users table: freeUsageCount and isPremium of each user
    rpc,              \* position of the analyze-menu request being served
    req,              \* that request: its image and who sent it (optional)
    cachedAnalysis,   \* row the cache lookup of the request returned (optional)
    analysis,         \* value analyzeKoreanMenu returned to the route (optional)
    response,         \* response sent for the request (optional)
    foodLookups,      \* names the route's analyses handed to the per-dish loop
    handled,          \* requests answered so far
    caught,           \* error a catch block of the request received (optional)
    adapter,          \* image adapter whose search is looked at
    adQuery,          \* number of the query the adapter sends next
    adItems,          \* result set of the adapter's latest query (optional)
    adOut,            \* what the adapter's search returned (optional)
    handlers,         \* requests in flight at once: the state of each handler
    served,           \* successful results each requester has received
    started,          \* requests the handlers have taken up so far
    accounts,         \* users table: stripeCustomerId and isPremium of each user
    webhookLog,       \* deliveries to /api/stripe-webhook, in the order answered
    proxyReq,         \* request to /api/proxy-image being served (optional)
    proxyFetches,     \* outcome of each fetch the proxy made for that request
    proxyStatus       \* status of the proxy's response (optional)

vars == <<foods, pc, ocrResult, idx, step, foodData, aiData, image, dishes,
          totalTokenUsage, result, thrown, trace, wfEnv, wfOut,
          menuAnalyses, users, rpc, req, cachedAnalysis, analysis, response,
          foodLookups, handled, caught, adapter, adQuery, adItems, adOut,
          handlers, served, started,
          accounts, webhookLog, proxyReq, proxyFetches, proxyStatus>>

pipelineVars == <<foods, pc, ocrResult, idx, step, foodData, aiData, image,
                  dishes, totalTokenUsage, result, thrown, trace>>

adapterVars == <<adapter, adQuery, adItems, adOut>>

overlapVars == <<handlers, served, started>>

webhookVars == <<accounts, webhookLog>>

proxyVars == <<proxyReq, proxyFetches, proxyStatus>>

imageVars == <<wfEnv, wfOut, adapter, adQuery, adItems, adOut>>

routeVars == <<menuAnalyses, users, rpc, req, cachedAnalysis, analysis, response,
               foodLookups, handled, caught>>

-----------------------------------------------------------------------------
(* Optional values *)

None == <<>>

Some(x) == <<x>>

IsSome(o) == Len(o) > 0

Val(o) == o[1]

-----------------------------------------------------------------------------
(* Bounds *)

\* longest extractedNames list the vision model is let to answer with
MaxExtracted == 4

\* analyze-menu requests served in one behaviour
MaxRequests == 2

\* longest result set of an image provider
MaxItems == 2

\* requests the handlers take up in one behaviour when requests overlap
MaxOverlap == 3

-----------------------------------------------------------------------------
(* Program constants *)

FoodLimit == 3

ConfidenceDatabase == 10

ConfidenceAI == 8

PromptTokenCost == 2500

CompletionTokenCost == 10000

AiPromptTokens == 200

AiCompletionTokens == 400

AiTotalTokens == 600

AiCostUsd == 4000000

AiCostAud == 6000000

AlternativeQueryLimit == 2

UsageLimit == 3

-----------------------------------------------------------------------------
(* Image waterfall: KoreanImageService and UnsplashService                  *)
(*                                                                          *)
(* The answers of the providers are the input.  An adapter's candidate is   *)
(* [url, accuracy, head]: head is what a HEAD request for the url answers:  *)
(* "image" (status 200, content-type image/...), "other" (status 200, other *)
(* content type) or "error" (non-2xx status, network failure, timeout: the  *)
(* request throws).                                                         *)

Accuracy == {"high", "medium", "low"}

HeadAnswer == {"image", "other", "error"}

\* urls as lists of '|'-separated segments; the second one holds a '|'
NaverUrls == {<<"naver.jpg">>, <<"naver", "jpg">>}

Optional(S) == {None} \cup {Some(x) : x \in S}

\* what each provider answers during one search
ImgEnvs ==
    { e \in [ accuracy : Accuracy,
              naver    : Optional([url : NaverUrls, head : HeadAnswer]),
              pexels   : [key : BOOLEAN,
                          cand : Optional([url : {<<"pexels.jpg">>}, head : HeadAnswer])],
              pixabay  : [key : BOOLEAN,
                          cand : Optional([url : {<<"pixabay.jpg">>}, head : HeadAnswer])],
              alt      : [1..AlternativeQueryLimit ->
                              Optional([url : {<<"naver_alt.jpg">>}, head : HeadAnswer])],
              unsplash : [key : BOOLEAN, englishName : BOOLEAN,
                          answer : {"none", "error", "found"}, head : HeadAnswer] ] :
        /\ ~e.pexels.key => e.pexels.cand = None
        /\ ~e.pixabay.key => e.pixabay.cand = None
        /\ ~e.unsplash.key => (e.unsplash.englishName /\ e.unsplash.answer = "none")
        /\ ~e.unsplash.englishName => e.unsplash.answer = "none"
        /\ e.unsplash.answer # "found" => e.unsplash.head = "image" }

Call(op, provider) == [op |-> op, provider |-> provider]

Tagged(env, c, source) ==
    IF IsSome(c)
    THEN Some([url |-> Val(c).url, accuracy |-> env.accuracy,
               head |-> Val(c).head, source |-> source])
    ELSE None

\* searchNaver without customQuery: the best item of the first query that has one
searchNaver(env) == Tagged(env, env.naver, "naver")

\* searchNaver with the q-th alternative query
searchNaverAlt(env, q) == Tagged(env, env.alt[q], "naver")

searchPexels(env) ==
    IF ~env.pexels.key THEN None ELSE Tagged(env, env.pexels.cand, "pexels")

searchPixabay(env) ==
    IF ~env.pixabay.key THEN None ELSE Tagged(env, env.pixabay.cand, "pixabay")

validateImageUrl(c) == c.head = "image"

\* `${url}|${accuracy}`
FormatImageResult(c) == c.url \o <<c.accuracy>>

\* getAlternativeNaverUrls: the first AlternativeQueryLimit alternative queries
\* are all sent, and the candidates they gave are kept in query order
RECURSIVE AlternativesFrom(_, _)
AlternativesFrom(env, q) ==
    IF q > AlternativeQueryLimit THEN <<>>
    ELSE (IF IsSome(searchNaverAlt(env, q))
          THEN <<Val(searchNaverAlt(env, q))>> ELSE <<>>)
         \o AlternativesFrom(env, q + 1)

getAlternativeNaverUrls(env) == AlternativesFrom(env, 1)

AlternativeCalls == [q \in 1..AlternativeQueryLimit |-> Call("search", "naver_alt")]

\* the loop over alternativeUrls: HEAD requests up to the first that validates
RECURSIVE ValidateAlternatives(_, _)
ValidateAlternatives(alts, k) ==
    IF k > Len(alts) THEN [ret |-> None, calls |-> <<>>]
    ELSE IF validateImageUrl(alts[k])
         THEN [ret |-> Some(FormatImageResult(alts[k])),
               calls |-> <<Call("head", "naver_alt")>>]
         ELSE LET rest == ValidateAlternatives(alts, k + 1)
              IN  [ret |-> rest.ret,
                   calls |-> <<Call("head", "naver_alt")>> \o rest.calls]

\* one numbered step of searchKoreanFoodImage: the adapter's answer, then the
\* HEAD request for its candidate
ProviderStep(cand, requested, provider) ==
    [ hit   |-> IsSome(cand) /\ validateImageUrl(Val(cand)),
      cand  |-> cand,
      calls |-> (IF requested THEN <<Call("search", provider)>> ELSE <<>>)
                \o (IF IsSome(cand) THEN <<Call("head", provider)>> ELSE <<>>) ]

\* step 4 of searchKoreanFoodImage: only an attempt whose source is naver
\* leads to alternative queries
AlternativeStep(env, naverAttempted) ==
    IF ~naverAttempted THEN [ret |-> None, calls |-> <<>>]
    ELSE LET v == ValidateAlternatives(getAlternativeNaverUrls(env), 1)
         IN  [ret |-> v.ret, calls |-> AlternativeCalls \o v.calls]

\* variant: Pexels is asked before the Naver candidate is looked at
searchKoreanFoodImagePexelsFirst(env) ==
    LET n  == ProviderStep(searchNaver(env), TRUE, "naver")
        p  == ProviderStep(searchPexels(env), env.pexels.key, "pexels")
    IN  IF p.hit
        THEN [ret |-> Some(FormatImageResult(Val(p.cand))), calls |-> p.calls \o n.calls]
        ELSE IF n.hit
        THEN [ret |-> Some(FormatImageResult(Val(n.cand))), calls |-> p.calls \o n.calls]
        ELSE [ret |-> None, calls |-> p.calls \o n.calls]

\* variant: Pixabay is asked before Pexels
searchKoreanFoodImagePixabayFirst(env) ==
    LET n  == ProviderStep(searchNaver(env), TRUE, "naver")
        p  == ProviderStep(searchPexels(env), env.pexels.key, "pexels")
        x  == ProviderStep(searchPixabay(env), env.pixabay.key, "pixabay")
        a  == AlternativeStep(env, IsSome(n.cand))
    IN  IF n.hit THEN [ret |-> Some(FormatImageResult(Val(n.cand))), calls |-> n.calls]
        ELSE IF x.hit
        THEN [ret |-> Some(FormatImageResult(Val(x.cand))), calls |-> n.calls \o x.calls]
        ELSE IF p.hit
        THEN [ret |-> Some(FormatImageResult(Val(p.cand))),
              calls |-> n.calls \o x.calls \o p.calls]
        ELSE [ret |-> a.ret, calls |-> n.calls \o x.calls \o p.calls \o a.calls]

searchKoreanFoodImage(env) ==
    LET n  == ProviderStep(searchNaver(env), TRUE, "naver")
        p  == ProviderStep(searchPexels(env), env.pexels.key, "pexels")
        x  == ProviderStep(searchPixabay(env), env.pixabay.key, "pixabay")
        a  == AlternativeStep(env, IsSome(n.cand))
    IN  IF n.hit THEN [ret |-> Some(FormatImageResult(Val(n.cand))), calls |-> n.calls]
        ELSE IF p.hit
        THEN [ret |-> Some(FormatImageResult(Val(p.cand))), calls |-> n.calls \o p.calls]
        ELSE IF x.hit
        THEN [ret |-> Some(FormatImageResult(Val(x.cand))),
              calls |-> n.calls \o p.calls \o x.calls]
        ELSE [ret |-> a.ret, calls |-> n.calls \o p.calls \o x.calls \o a.calls]

\* variant: the Unsplash queries are sent without an access key
searchUnsplashWithoutKey(env) ==
    IF ~env.unsplash.englishName
    THEN [ret |-> None, calls |-> <<>>]
    ELSE [ret |-> IF env.unsplash.answer = "found"
                  THEN Some(<<"unsplash.jpg", env.accuracy>>) ELSE None,
          calls |-> <<Call("search", "unsplash")>>]

\* the Unsplash fallback of searchKoreanFood: the first query with images
\* gives its best image, which is not validated
searchUnsplash(env) ==
    IF ~env.unsplash.key \/ ~env.unsplash.englishName
    THEN [ret |-> None, calls |-> <<>>]
    ELSE [ret |-> IF env.unsplash.answer = "found"
                  THEN Some(<<"unsplash.jpg", env.accuracy>>) ELSE None,
          calls |-> <<Call("search", "unsplash")>>]

\* searchGenericKoreanFood: the query 'korean food traditional cuisine' and a
\* random one of its first results; no caller in the sources, searchKoreanFood
\* included
searchGenericKoreanFood(env) ==
    IF ~env.unsplash.key THEN {[ret |-> None, calls |-> <<>>]}
    ELSE {[ret |-> r, calls |-> <<Call("search", "unsplash_generic")>>] :
             r \in {None, Some(<<"generic1.jpg">>), Some(<<"generic2.jpg">>)}}

searchKoreanFood(env) ==
    LET k == searchKoreanFoodImage(env)
        u == searchUnsplash(env)
    IN  IF IsSome(k.ret) THEN k
        ELSE [ret |-> u.ret, calls |-> k.calls \o u.calls]

\* const [url, accuracy] = imageResult.split('|'), with the defaults
ParseImageResult(r) ==
    IF IsSome(r)
    THEN [imageUrl |-> Some(Val(r)[1]),
          imageAccuracy |-> IF Len(Val(r)) >= 2 /\ Val(r)[2] # ""
                            THEN Val(r)[2] ELSE "high"]
    ELSE [imageUrl |-> None, imageAccuracy |-> "high"]

\* an environment without any image: no candidate, no api key
NoImageEnv ==
    [ accuracy |-> "high", naver |-> None,
      pexels |-> [key |-> FALSE, cand |-> None],
      pixabay |-> [key |-> FALSE, cand |-> None],
      alt |-> [q \in 1..AlternativeQueryLimit |-> None],
      unsplash |-> [key |-> FALSE, englishName |-> TRUE, answer |-> "none",
                    head |-> "image"] ]

-----------------------------------------------------------------------------
(* Store: the koreanFoods table of DatabaseStorage *)

\* the spelling the table knows, and a spelling of the menu it does not know
Names == {"bibimbap", "bibim bap"}

\* a row of the seed data
SeedFood ==
    [ id |-> 1, nameKorean |-> "bibimbap", nameEnglish |-> "Bibimbap",
      calories |-> 420, imageUrl |-> None ]

MatchingRows(table, nameKorean) ==
    {i \in 1..Len(table) : table[i].nameKorean = nameKorean}

\* findKoreanFood: the first row of a select that states no order, so any
\* matching row; undefined when no row matches
findKoreanFood(table, nameKorean) ==
    IF MatchingRows(table, nameKorean) = {} THEN {None}
    ELSE {Some(table[i]) : i \in MatchingRows(table, nameKorean)}

\* the row createKoreanFood inserts and returns: the columns of the table,
\* under the next serial id
\* variant: the row is stored without the image url
InsertedRowWithoutImage(table, food) ==
    [ id |-> Len(table) + 1, nameKorean |-> food.nameKorean,
      nameEnglish |-> food.nameEnglish, calories |-> food.calories,
      imageUrl |-> None ]

InsertedRow(table, food) ==
    [ id |-> Len(table) + 1, nameKorean |-> food.nameKorean,
      nameEnglish |-> food.nameEnglish, calories |-> food.calories,
      imageUrl |-> food.imageUrl ]

\* variant: a row of the same name is overwritten
createKoreanFoodUpsert(table, food) ==
    IF MatchingRows(table, food.nameKorean) = {}
    THEN Append(table, InsertedRow(table, food))
    ELSE [i \in 1..Len(table) |->
            IF table[i].nameKorean = food.nameKorean
            THEN [InsertedRow(table, food) EXCEPT !.id = table[i].id]
            ELSE table[i]]

\* variant: the new row takes the calories of a row of the same name
createKoreanFoodMerged(table, food) ==
    IF MatchingRows(table, food.nameKorean) = {}
    THEN Append(table, InsertedRow(table, food))
    ELSE Append(table, [InsertedRow(table, food) EXCEPT !.calories =
                           table[CHOOSE i \in MatchingRows(table, food.nameKorean) : TRUE].calories])

\* db.insert(koreanFoods).values(food): one more row, the others untouched
createKoreanFood(table, food) == Append(table, InsertedRow(table, food))

-----------------------------------------------------------------------------
(* Generative calls: what the model may answer *)

\* usage block of the vision model's response
OcrUsages ==
    { [prompt_tokens |-> 1000, completion_tokens |-> 50, total_tokens |-> 1050] }

RECURSIVE SeqsUpTo(_, _)
SeqsUpTo(S, n) ==
    IF n = 0 THEN {<<>>}
    ELSE SeqsUpTo(S, n - 1)
         \cup {Append(s, x) : s \in {t \in SeqsUpTo(S, n - 1) : Len(t) = n - 1}, x \in S}

\* the JSON object of the vision model: every field may be missing, the name
\* list is as long as the model made it
OcrJson ==
    [ isKoreanMenu   : Optional(BOOLEAN),
      extractedNames : Optional(SeqsUpTo(Names, MaxExtracted)),
      totalDetected  : Optional({FoodLimit, FoodLimit + 1}),
      usage          : OcrUsages ]

\* None: no content, content that JSON.parse rejects, or a failed request
OcrReplies == Optional(OcrJson)

\* the JSON object of the text model for one dish; nameKorean is the model's
\* own spelling of the dish: the one it was asked about, or the usual one
AiJson ==
    { [ nameKorean |-> "bibim bap", nameEnglish |-> "Bibimbap",
        calories |-> Some(560), descriptionEnglish |-> Some(<<"Rice with vegetables">>) ],
      [ nameKorean |-> "bibimbap", nameEnglish |-> "Mixed rice bowl",
        calories |-> None, descriptionEnglish |-> None ] }

AiReplies == Optional(AiJson)

\* provider answers the pipeline is run with: a Naver candidate that
\* validates, and one that does not with nothing behind it
PipelineImgEnvs ==
    { [NoImageEnv EXCEPT !.accuracy = "medium",
                         !.naver = Some([url |-> <<"naver.jpg">>, head |-> h])] :
        h \in {"image", "error"} }

-----------------------------------------------------------------------------
(* services/openai.ts *)

\* a || b on an optional value
OrElse(o, default) == IF IsSome(o) THEN Val(o) ELSE default

TraditionalKorean(nameEnglish) == <<"Traditional Korean", nameEnglish>>

\* cost_usd and cost_aud of a usage block, in nano-dollars
CostUsd(usage) ==
    usage.prompt_tokens * PromptTokenCost + usage.completion_tokens * CompletionTokenCost

CostAud(usage) == (CostUsd(usage) * 3) \div 2

\* the object extractKoreanFoodNames returns for a parsed response
extractKoreanFoodNames(json) ==
    [ isKoreanMenu   |-> json.isKoreanMenu,
      extractedNames |-> OrElse(json.extractedNames, <<>>),
      totalDetected  |-> json.totalDetected,
      tokenUsage     |-> [ prompt_tokens     |-> json.usage.prompt_tokens,
                           completion_tokens |-> json.usage.completion_tokens,
                           total_tokens      |-> json.usage.total_tokens,
                           cost_usd          |-> CostUsd(json.usage),
                           cost_aud          |-> CostAud(json.usage) ] ]

\* the object getFoodDetailsFromAI returns for a parsed response
getFoodDetailsFromAI(json) ==
    [ nameKorean         |-> json.nameKorean,
      nameEnglish        |-> json.nameEnglish,
      descriptionEnglish |-> OrElse(json.descriptionEnglish,
                                    TraditionalKorean(json.nameEnglish)),
      calories           |-> OrElse(json.calories, 0),
      imageUrl           |-> None ]

\* variant: the limit is one item higher
FoodLimitExceededAboveFour(totalDetected) ==
    IsSome(totalDetected) /\ Val(totalDetected) # 0 /\ Val(totalDetected) > FoodLimit + 1

\* ocrResult.totalDetected && ocrResult.totalDetected > 3
FoodLimitExceeded(totalDetected) ==
    IsSome(totalDetected) /\ Val(totalDetected) # 0 /\ Val(totalDetected) > FoodLimit

\* variant: the menu is taken for a Korean one whatever the OCR step said
NotKoreanMenuNever(isKoreanMenu) == FALSE

\* !ocrResult.isKoreanMenu
NotKoreanMenu(isKoreanMenu) == ~(IsSome(isKoreanMenu) /\ Val(isKoreanMenu))

\* variant: the text model is asked whatever the lookup answered
NextStepAlwaysAi(found) == "ai"

\* if (foodData) ... else ...: the call the loop body makes after the lookup
NextStepAfterFind(found) == IF IsSome(found) THEN "image" ELSE "ai"

\* the dish pushed when the name was found in the table
DishFromStore(food, img) ==
    [ nameKorean         |-> food.nameKorean,
      nameEnglish        |-> food.nameEnglish,
      descriptionEnglish |-> TraditionalKorean(food.nameEnglish),
      calories           |-> food.calories,
      imageUrl           |-> img.imageUrl,
      imageAccuracy      |-> img.imageAccuracy,
      confidence         |-> ConfidenceDatabase,
      source             |-> "database" ]

\* variant: a generated dish with the confidence of a stored one
DishFromAIConfident(savedFood, ai, img) ==
    [ nameKorean         |-> savedFood.nameKorean,
      nameEnglish        |-> savedFood.nameEnglish,
      descriptionEnglish |-> IF ai.descriptionEnglish # <<>>
                             THEN ai.descriptionEnglish
                             ELSE TraditionalKorean(savedFood.nameEnglish),
      calories           |-> savedFood.calories,
      imageUrl           |-> img.imageUrl,
      imageAccuracy      |-> img.imageAccuracy,
      confidence         |-> ConfidenceDatabase,
      source             |-> "ai" ]

\* the dish pushed after the generated record was saved
DishFromAI(savedFood, ai, img) ==
    [ nameKorean         |-> savedFood.nameKorean,
      nameEnglish        |-> savedFood.nameEnglish,
      descriptionEnglish |-> IF ai.descriptionEnglish # <<>>
                             THEN ai.descriptionEnglish
                             ELSE TraditionalKorean(savedFood.nameEnglish),
      calories           |-> savedFood.calories,
      imageUrl           |-> img.imageUrl,
      imageAccuracy      |-> img.imageAccuracy,
      confidence         |-> ConfidenceAI,
      source             |-> "ai" ]

\* variant: dishes = [dish]
PushDishReplace(list, dish) == <<dish>>

\* variant: dishes.unshift(dish)
PushDishFront(list, dish) == <<dish>> \o list

\* dishes.push(dish)
PushDish(list, dish) == Append(list, dish)

\* variant: the estimate leaves total_tokens as it was
AddAiUsageWithoutTotal(usage) ==
    [ prompt_tokens     |-> usage.prompt_tokens + AiPromptTokens,
      completion_tokens |-> usage.completion_tokens + AiCompletionTokens,
      total_tokens      |-> usage.total_tokens,
      cost_usd          |-> usage.cost_usd + AiCostUsd,
      cost_aud          |-> usage.cost_aud + AiCostAud ]

\* the rough estimate added for one food detail request
AddAiUsage(usage) ==
    [ prompt_tokens     |-> usage.prompt_tokens + AiPromptTokens,
      completion_tokens |-> usage.completion_tokens + AiCompletionTokens,
      total_tokens      |-> usage.total_tokens + AiTotalTokens,
      cost_usd          |-> usage.cost_usd + AiCostUsd,
      cost_aud          |-> usage.cost_aud + AiCostAud ]

NoUsage ==
    [ prompt_tokens |-> 0, completion_tokens |-> 0, total_tokens |-> 0,
      cost_usd |-> 0, cost_aud |-> 0 ]

Error(message, detected) == [message |-> message, detected |-> detected]

Event(op, i, res, dish) == [op |-> op, idx |-> i, res |-> res, dish |-> dish]

extractedNames == Val(ocrResult).extractedNames

koreanName == extractedNames[idx]

\* variant: the loop takes up the name it has just left once more
LoopToSameName(i, names) ==
    /\ idx' = IF i > 1 THEN i - 1 ELSE i
    /\ pc' = "Resolving"
    /\ step' = "find"
    /\ foodData' = None
    /\ aiData' = None
    /\ image' = None

\* the for-of loop moves to position i: the next name, or past the last one
LoopTo(i, names) ==
    /\ idx' = i
    /\ pc' = IF i <= Len(names) THEN "Resolving" ELSE "Aggregating"
    /\ step' = IF i <= Len(names) THEN "find" ELSE "none"
    /\ foodData' = None
    /\ aiData' = None
    /\ image' = None

\* variant: the error of one dish leaves the loop and reaches the outer catch
CatchDishErrorRethrow ==
    /\ pc' = "Failed"
    /\ thrown' = Some(Error("Failed to analyze menu", None))
    /\ step' = "none"
    /\ foodData' = None
    /\ aiData' = None
    /\ image' = None
    /\ UNCHANGED idx

\* catch (error) of the loop body: log the error, go on with the next name
CatchDishError ==
    /\ LoopTo(idx + 1, extractedNames)
    /\ UNCHANGED thrown

InitPipeline ==
    /\ foods = <<SeedFood>>
    /\ pc = "Start"
    /\ ocrResult = None
    /\ idx = 0
    /\ step = "none"
    /\ foodData = None
    /\ aiData = None
    /\ image = None
    /\ dishes = <<>>
    /\ totalTokenUsage = NoUsage
    /\ result = None
    /\ thrown = None
    /\ trace = <<>>

\* analyzeKoreanMenu is called: the OCR request is sent
StartAnalysis ==
    /\ pc = "Start"
    /\ pc' = "Extracting"
    /\ UNCHANGED <<foods, ocrResult, idx, step, foodData, aiData, image, dishes,
                   totalTokenUsage, result, thrown, trace>>

\* extractKoreanFoodNames throws: analyzeKoreanMenu throws its own error
ExtractFailed ==
    /\ pc' = "Failed"
    /\ thrown' = Some(Error("Failed to analyze menu", None))
    /\ UNCHANGED <<ocrResult, idx, step, foodData, aiData, image, dishes,
                   totalTokenUsage, result>>

\* more than three items detected: the FOOD_LIMIT_ERROR is thrown and re-thrown
RejectTooMany(ocr) ==
    /\ pc' = "Rejected"
    /\ thrown' = Some(Error("FOOD_LIMIT_ERROR", ocr.totalDetected))
    /\ ocrResult' = Some(ocr)
    /\ totalTokenUsage' = ocr.tokenUsage
    /\ UNCHANGED <<idx, step, foodData, aiData, image, dishes, result>>

ReturnNotKorean(ocr) ==
    /\ pc' = "Done"
    /\ result' = Some([isKoreanMenu |-> FALSE, dishes |-> <<>>,
                       tokenUsage |-> ocr.tokenUsage])
    /\ ocrResult' = Some(ocr)
    /\ totalTokenUsage' = ocr.tokenUsage
    /\ UNCHANGED <<idx, step, foodData, aiData, image, dishes, thrown>>

EnterLoop(ocr) ==
    /\ ocrResult' = Some(ocr)
    /\ totalTokenUsage' = ocr.tokenUsage
    /\ LoopTo(1, ocr.extractedNames)
    /\ UNCHANGED <<dishes, result, thrown>>

\* the OCR request answers: steps 1 and the checks before the loop
ExtractNames ==
    /\ pc = "Extracting"
    /\ \E reply \in OcrReplies :
          /\ trace' = Append(trace, Event("ocr", 0, IF IsSome(reply) THEN "ok" ELSE "error", None))
          /\ IF ~IsSome(reply) THEN ExtractFailed
             ELSE LET ocr == extractKoreanFoodNames(Val(reply))
                  IN  IF FoodLimitExceeded(ocr.totalDetected) THEN RejectTooMany(ocr)
                      ELSE IF NotKoreanMenu(ocr.isKoreanMenu) THEN ReturnNotKorean(ocr)
                      ELSE EnterLoop(ocr)
    /\ UNCHANGED foods

\* storage.findKoreanFood answers
FindFood ==
    /\ pc = "Resolving" /\ step = "find"
    /\ \/ /\ trace' = Append(trace, Event("find", idx, "error", None))
          /\ CatchDishError
       \/ \E found \in findKoreanFood(foods, koreanName) :
             /\ trace' = Append(trace, Event("find", idx,
                                   IF IsSome(found) THEN "hit" ELSE "miss", None))
             /\ foodData' = found
             /\ step' = NextStepAfterFind(found)
             /\ UNCHANGED <<pc, idx, aiData, image, thrown>>
    /\ UNCHANGED <<foods, ocrResult, dishes, totalTokenUsage, result>>

\* getFoodDetailsFromAI answers
AiDetails ==
    /\ pc = "Resolving" /\ step = "ai"
    /\ \E reply \in AiReplies :
          /\ trace' = Append(trace, Event("ai", idx,
                                IF IsSome(reply) THEN "ok" ELSE "error", None))
          /\ IF ~IsSome(reply) THEN CatchDishError
             ELSE /\ aiData' = Some(getFoodDetailsFromAI(Val(reply)))
                  /\ step' = "image"
                  /\ UNCHANGED <<pc, idx, foodData, image, thrown>>
    /\ UNCHANGED <<foods, ocrResult, dishes, totalTokenUsage, result>>

\* unsplashService.searchKoreanFood answers; in the branch of a stored name
\* the dish is pushed, in the other branch the url goes into aiData
ImageSearch ==
    /\ pc = "Resolving" /\ step = "image"
    /\ \E env \in PipelineImgEnvs :
          LET img == ParseImageResult(searchKoreanFood(env).ret)
          IN  IF IsSome(foodData)
              THEN LET dish == DishFromStore(Val(foodData), img)
                   IN  /\ dishes' = PushDish(dishes, dish)
                       /\ trace' = trace \o <<Event("image", idx, "ok", None),
                                              Event("push", idx, "ok", Some(dish))>>
                       /\ LoopTo(idx + 1, extractedNames)
              ELSE /\ image' = Some(img)
                   /\ aiData' = Some([Val(aiData) EXCEPT !.imageUrl = img.imageUrl])
                   /\ step' = "create"
                   /\ trace' = Append(trace, Event("image", idx, "ok", None))
                   /\ UNCHANGED <<pc, idx, foodData, dishes>>
    /\ UNCHANGED <<foods, ocrResult, totalTokenUsage, result, thrown>>

\* storage.createKoreanFood answers
CreateFood ==
    /\ pc = "Resolving" /\ step = "create"
    /\ \/ /\ trace' = Append(trace, Event("create", idx, "error", None))
          /\ CatchDishError
          /\ UNCHANGED <<foods, dishes, totalTokenUsage>>
       \/ LET savedFood == InsertedRow(foods, Val(aiData))
              dish == DishFromAI(savedFood, Val(aiData), Val(image))
          IN  /\ foods' = createKoreanFood(foods, Val(aiData))
              /\ dishes' = PushDish(dishes, dish)
              /\ totalTokenUsage' = AddAiUsage(totalTokenUsage)
              /\ trace' = trace \o <<Event("create", idx, "ok", None),
                                     Event("push", idx, "ok", Some(dish))>>
              /\ LoopTo(idx + 1, extractedNames)
              /\ UNCHANGED thrown
    /\ UNCHANGED <<ocrResult, result>>

\* variant: after the loop the analysis starts over
ReturnResultRestart ==
    /\ pc = "Aggregating"
    /\ pc' = "Extracting"
    /\ UNCHANGED <<foods, ocrResult, idx, step, foodData, aiData, image, dishes,
                   totalTokenUsage, result, thrown, trace>>

\* the loop is over: the result is returned
ReturnResult ==
    /\ pc = "Aggregating"
    /\ pc' = "Done"
    /\ result' = Some([isKoreanMenu |-> TRUE, dishes |-> dishes,
                       tokenUsage |-> totalTokenUsage])
    /\ UNCHANGED <<foods, ocrResult, idx, step, foodData, aiData, image, dishes,
                   totalTokenUsage, thrown, trace>>

-----------------------------------------------------------------------------
(* routes.ts: POST /api/analyze-menu behind checkUsageLimit                  *)
(*                                                                          *)
(* Requests are served one after the other.  analyzeKoreanMenu is taken as  *)
(* one call here: the OCR reply decides between its outcomes as above, and  *)
(* the per-dish loop is any of its results.                                 *)

Images == {"imgA", "imgB"}

\* CryptoJS.SHA256(imageBase64).toString(): equal digests for equal payloads
SHA256(imageBase64) == <<"sha256", imageBase64>>

AdminUserId == "44879184"

\* a user on the free plan, a premium user and the admin user
Users == {"u1", "u2", AdminUserId}

PremiumUsers == {"u2"}

\* who sends a request: a logged-in user, or an anonymous session
Requesters ==
    {[userId |-> Some(u), sessionId |-> None] : u \in Users}
    \cup {[userId |-> None, sessionId |-> Some("s1")]}

\* image: None when the request has neither a file nor imageBase64
Requests == [image : Optional(Images), who : Requesters]

\* storage.getUsageCount
getUsageCount(table, analyses, who) ==
    IF IsSome(who.userId)
    THEN IF Val(who.userId) \in DOMAIN table
         THEN table[Val(who.userId)].freeUsageCount ELSE 0
    ELSE IF IsSome(who.sessionId)
    THEN Cardinality({i \in 1..Len(analyses) : analyses[i].sessionId = who.sessionId})
    ELSE 0

\* storage.incrementUserUsage, called if (userId)
incrementUserUsage(table, who) ==
    IF IsSome(who.userId) /\ Val(who.userId) \in DOMAIN table
    THEN [table EXCEPT ![Val(who.userId)].freeUsageCount = @ + 1]
    ELSE table

\* variant: premium users and the admin user are held to the limit too
UsageLimitReachedForAll(usageCount, who, table) == usageCount >= UsageLimit

\* usageCount >= 3 && userId !== adminUserId, for an anonymous requester or
\* a user who is not premium
UsageLimitReached(usageCount, who, table) ==
    /\ usageCount >= UsageLimit
    /\ who.userId # Some(AdminUserId)
    /\ \/ ~IsSome(who.userId)
       \/ Val(who.userId) \notin DOMAIN table
       \/ ~table[Val(who.userId)].isPremium

\* variant: the lookup never finds a row
getCachedAnalysisNever(analyses, imageHash) == None

\* variant: the oldest row with the hash
getCachedAnalysisOldest(analyses, imageHash) ==
    LET rows == {i \in 1..Len(analyses) : analyses[i].imageHash = imageHash}
    IN  IF rows = {} THEN None
        ELSE Some(analyses[CHOOSE i \in rows : \A j \in rows : i <= j])

\* storage.getCachedAnalysisByImageHash: the newest row with the hash

getCachedAnalysisByImageHash(analyses, imageHash) ==
    LET rows == {i \in 1..Len(analyses) : analyses[i].imageHash = imageHash}
    IN  IF rows = {} THEN None
        ELSE Some(analyses[CHOOSE i \in rows : \A j \in rows : j <= i])

\* the row storage.createMenuAnalysis inserts for a fresh analysis
MenuAnalysisRow(analyses, request, value) ==
    [ id                 |-> Len(analyses) + 1,
      userId             |-> request.who.userId,
      sessionId          |-> IF IsSome(request.who.userId) THEN None
                             ELSE request.who.sessionId,
      imageHash          |-> SHA256(Val(request.image)),
      extractedFoodNames |-> [k \in 1..Len(value.dishes) |-> value.dishes[k].nameKorean],
      detectedDishes     |-> value.dishes,
      isKoreanMenu       |-> value.isKoreanMenu,
      tokenUsage         |-> value.tokenUsage ]

createMenuAnalysis(analyses, request, value) ==
    Append(analyses, MenuAnalysisRow(analyses, request, value))

\* the bodies the route answers with
Reply(status) ==
    [ status |-> status, isLimitError |-> FALSE, isLimitReached |-> FALSE,
      detected |-> None, cached |-> FALSE, id |-> None, dishes |-> None,
      isKoreanMenu |-> None, tokenUsage |-> None ]

UsageLimitResponse == [Reply(402) EXCEPT !.isLimitReached = TRUE]

NoImageResponse == Reply(400)

ServerErrorResponse == Reply(500)

\* the message of the FOOD_LIMIT_ERROR without its tag: it holds the count
FoodLimitResponse(error) ==
    [Reply(400) EXCEPT !.isLimitError = TRUE, !.detected = error.detected]

\* variant: every caught error is answered alike
AnalysisErrorResponseAlways500(error) == ServerErrorResponse

\* catch (analysisError): the limit error is answered, any other is re-thrown
\* to the outer catch

AnalysisErrorResponse(error) ==
    IF error.message = "FOOD_LIMIT_ERROR" THEN FoodLimitResponse(error)
    ELSE ServerErrorResponse

\* variant: the stored row is returned like a fresh analysis
CachedResponseUnmarked(row) ==
    [Reply(200) EXCEPT !.id = Some(row.id),
                       !.dishes = Some(row.detectedDishes),
                       !.isKoreanMenu = Some(row.isKoreanMenu),
                       !.tokenUsage = Some(row.tokenUsage)]

CachedResponse(row) ==
    [Reply(200) EXCEPT !.cached = TRUE, !.id = Some(row.id),
                       !.dishes = Some(row.detectedDishes),
                       !.isKoreanMenu = Some(row.isKoreanMenu),
                       !.tokenUsage = Some(row.tokenUsage)]

FreshResponse(row, value) ==
    [Reply(200) EXCEPT !.id = Some(row.id), !.dishes = Some(value.dishes),
                       !.isKoreanMenu = Some(value.isKoreanMenu),
                       !.tokenUsage = Some(value.tokenUsage)]

\* name lists the OCR step gives in the requests: none, a name the table
\* does not hold, a stored name followed by one it does not hold
RouteNameLists == {<<>>, <<"bibim bap">>, <<"bibimbap", "bibim bap">>}

RouteOcrReplies ==
    {None} \cup
    { Some(j) : j \in [ isKoreanMenu   : {Some(TRUE), Some(FALSE)},
                        extractedNames : {Some(n) : n \in RouteNameLists},
                        totalDetected  : {None, Some(FoodLimit + 1)},
                        usage          : OcrUsages ] }

\* results of the per-dish loop from position k on: each name is skipped after
\* an error, found in the table, or generated under the text model's name
RECURSIVE Resolutions(_, _, _)
Resolutions(names, k, acc) ==
    IF k > Len(names) THEN {acc}
    ELSE LET found == [acc EXCEPT !.dishes =
                          PushDish(@, [nameKorean |-> names[k], source |-> "database"])]
             made(a) == [ dishes |-> PushDish(acc.dishes, [nameKorean |-> a.nameKorean,
                                                          source |-> "ai"]),
                          tokenUsage |-> AddAiUsage(acc.tokenUsage) ]
         IN  Resolutions(names, k + 1, acc)
             \cup Resolutions(names, k + 1, found)
             \cup (IF MatchingRows(<<SeedFood>>, names[k]) # {} THEN {}
                   ELSE UNION {Resolutions(names, k + 1, made(a)) : a \in AiJson})

\* variant: the item count is checked after the names went through the loop
analyzeKoreanMenuLimitAfterLoop(reply) ==
    IF ~IsSome(reply)
    THEN {[ thrown |-> Some(Error("Failed to analyze menu", None)),
            value |-> None, lookups |-> <<>> ]}
    ELSE LET ocr == extractKoreanFoodNames(Val(reply))
         IN  IF FoodLimitExceeded(ocr.totalDetected)
             THEN {[ thrown |-> Some(Error("FOOD_LIMIT_ERROR", ocr.totalDetected)),
                     value |-> None, lookups |-> ocr.extractedNames ]}
             ELSE {[ thrown |-> None,
                     value |-> Some([isKoreanMenu |-> ~NotKoreanMenu(ocr.isKoreanMenu),
                                     dishes |-> <<>>, tokenUsage |-> ocr.tokenUsage]),
                     lookups |-> <<>> ]}

\* analyzeKoreanMenu as the route sees it: what it throws or returns, and how
\* many names it handed to the per-dish loop
analyzeKoreanMenu(reply) ==
    IF ~IsSome(reply)
    THEN {[ thrown |-> Some(Error("Failed to analyze menu", None)),
            value |-> None, lookups |-> <<>> ]}
    ELSE LET ocr == extractKoreanFoodNames(Val(reply))
         IN  IF FoodLimitExceeded(ocr.totalDetected)
             THEN {[ thrown |-> Some(Error("FOOD_LIMIT_ERROR", ocr.totalDetected)),
                     value |-> None, lookups |-> <<>> ]}
             ELSE IF NotKoreanMenu(ocr.isKoreanMenu)
             THEN {[ thrown |-> None,
                     value |-> Some([isKoreanMenu |-> FALSE, dishes |-> <<>>,
                                     tokenUsage |-> ocr.tokenUsage]),
                     lookups |-> <<>> ]}
             ELSE {[ thrown |-> None,
                     value |-> Some([isKoreanMenu |-> TRUE, dishes |-> r.dishes,
                                     tokenUsage |-> r.tokenUsage]),
                     lookups |-> ocr.extractedNames ] :
                     r \in Resolutions(ocr.extractedNames, 1,
                                       [dishes |-> <<>>, tokenUsage |-> ocr.tokenUsage])}

\* the request is answered
Respond(r) ==
    /\ response' = Some(r)
    /\ rpc' = "Responded"

\* an error of the storage layer
StoreError == Error("storage", None)

\* the handler's catch blocks: the error is answered by its message
Catch(error) ==
    /\ caught' = Some(error)
    /\ Respond(AnalysisErrorResponse(error))

\* photos sent before the requests looked at
EarlierImages == <<"imgX", "imgY", "imgZ">>

\* the rows of usageCount earlier analyses of the anonymous session, each of
\* a photo of its own that showed no Korean menu
PriorAnalyses(usageCount) ==
    [ k \in 1..usageCount |->
        [ id                 |-> k,
          userId             |-> None,
          sessionId          |-> Some("s1"),
          imageHash          |-> SHA256(EarlierImages[k]),
          extractedFoodNames |-> <<>>,
          detectedDishes     |-> <<>>,
          isKoreanMenu       |-> FALSE,
          tokenUsage         |-> NoUsage ] ]

\* every requester has used the service usageCount times
InitRoute(usageCount) ==
    /\ menuAnalyses = PriorAnalyses(usageCount)
    /\ users = [u \in Users |-> [freeUsageCount |-> usageCount,
                                 isPremium |-> u \in PremiumUsers]]
    /\ rpc = "Idle"
    /\ req = None
    /\ cachedAnalysis = None
    /\ analysis = None
    /\ response = None
    /\ foodLookups = <<>>
    /\ handled = 0
    /\ caught = None

\* a request arrives
ReceiveRequest ==
    /\ rpc = "Idle"
    /\ handled < MaxRequests
    /\ \E r \in Requests : req' = Some(r)
    /\ rpc' = "Gate"
    /\ cachedAnalysis' = None
    /\ analysis' = None
    /\ response' = None
    /\ caught' = None
    /\ UNCHANGED <<menuAnalyses, users, foodLookups, handled>>

\* checkUsageLimit: the count is read and compared; a store error is a 500
CheckUsageLimit ==
    /\ rpc = "Gate"
    /\ \/ caught' = Some(StoreError) /\ Respond(ServerErrorResponse)
       \/ /\ LET who == Val(req).who
                 usageCount == getUsageCount(users, menuAnalyses, who)
             IN  IF UsageLimitReached(usageCount, who, users)
                 THEN Respond(UsageLimitResponse)
                 ELSE rpc' = "Handler" /\ UNCHANGED response
          /\ UNCHANGED caught
    /\ UNCHANGED <<menuAnalyses, users, req, cachedAnalysis, analysis, foodLookups, handled>>

\* the handler reads the image, hashes it and looks the hash up
LookupCache ==
    /\ rpc = "Handler"
    /\ IF ~IsSome(Val(req).image)
       THEN Respond(NoImageResponse) /\ UNCHANGED <<cachedAnalysis, caught>>
       ELSE \/ Catch(StoreError) /\ UNCHANGED cachedAnalysis
            \/ /\ UNCHANGED caught
               /\ cachedAnalysis' =
                     getCachedAnalysisByImageHash(menuAnalyses, SHA256(Val(Val(req).image)))
               /\ rpc' = IF IsSome(cachedAnalysis') THEN "CacheHit" ELSE "Analyzing"
               /\ UNCHANGED response
    /\ UNCHANGED <<menuAnalyses, users, req, analysis, foodLookups, handled>>

\* cache hit: the usage of a user is incremented and the stored row returned
ServeCached ==
    /\ rpc = "CacheHit"
    /\ \/ /\ IsSome(Val(req).who.userId)
          /\ Catch(StoreError)
          /\ UNCHANGED users
       \/ /\ users' = incrementUserUsage(users, Val(req).who)
          /\ Respond(CachedResponse(Val(cachedAnalysis)))
          /\ UNCHANGED caught
    /\ UNCHANGED <<menuAnalyses, req, cachedAnalysis, analysis, foodLookups, handled>>

\* cache miss: analyzeKoreanMenu runs; what it throws is answered at once
Analyze ==
    /\ rpc = "Analyzing"
    /\ \E reply \in RouteOcrReplies : \E out \in analyzeKoreanMenu(reply) :
          /\ foodLookups' = foodLookups \o out.lookups
          /\ IF IsSome(out.thrown)
             THEN Catch(Val(out.thrown)) /\ UNCHANGED analysis
             ELSE /\ analysis' = out.value
                  /\ rpc' = "Saving"
                  /\ UNCHANGED <<response, caught>>
    /\ UNCHANGED <<menuAnalyses, users, req, cachedAnalysis, handled>>

\* storage.createMenuAnalysis
SaveAnalysis ==
    /\ rpc = "Saving"
    /\ \/ Catch(StoreError) /\ UNCHANGED menuAnalyses
       \/ /\ menuAnalyses' = createMenuAnalysis(menuAnalyses, Val(req), Val(analysis))
          /\ rpc' = "Counting"
          /\ UNCHANGED <<response, caught>>
    /\ UNCHANGED <<users, req, cachedAnalysis, analysis, foodLookups, handled>>

\* storage.incrementUserUsage after the analysis, then res.json(response)
CountUsage ==
    /\ rpc = "Counting"
    /\ \/ /\ IsSome(Val(req).who.userId)
          /\ Catch(StoreError)
          /\ UNCHANGED users
       \/ /\ users' = incrementUserUsage(users, Val(req).who)
          /\ Respond(FreshResponse(menuAnalyses[Len(menuAnalyses)], Val(analysis)))
          /\ UNCHANGED caught
    /\ UNCHANGED <<menuAnalyses, req, cachedAnalysis, analysis, foodLookups, handled>>

\* the request is over
FinishRequest ==
    /\ rpc = "Responded"
    /\ rpc' = "Idle"
    /\ handled' = handled + 1
    /\ UNCHANGED <<menuAnalyses, users, req, cachedAnalysis, analysis, response,
                   foodLookups, caught>>

-----------------------------------------------------------------------------
(* Image adapters: scoring and choice of one result set                     *)
(*                                                                          *)
(* An item of a result set is its url, given by its host, and the text the  *)
(* adapter reads (title and source for Naver, alt text, tags or description *)
(* for the others), given by the one keyword group it holds.                *)

Adapters == {"naver", "pexels", "pixabay", "unsplash"}

\* a Korean blog host, a shopping host, Pinterest, any other host
Hosts == {"blogfiles.naver.net", "shopping.phinf.naver.net", "pinimg.com", "example.com"}

\* blogfiles.naver.net, postfiles.naver.net, blog.naver.com
BlogHosts == {"blogfiles.naver.net"}

\* shopping.phinf.naver.net, shop1.phinf.naver.net, commerce., shopping.
ExcludedHosts == {"shopping.phinf.naver.net"}

\* keyword groups: none, food words, Korea words, people and places, the
\* dish's own name, a recipe or restaurant source, photographer or tag extras
Texts == {"plain", "food", "korean", "person", "name", "recipe", "extra"}

Items == [host : Hosts, text : Texts]

ResultSets == SeqsUpTo(Items, MaxItems)

\* queries each adapter sends for one dish (part_003:134, 253, 330;
\* part_002:62-85)
QueryCount == [naver |-> 5, pexels |-> 5, pixabay |-> 4, unsplash |-> 6]

\* the score each adapter gives to a keyword group (part_003:180-188,
\* 284-287, 359-362; part_002:118-134)
TextScore ==
    [ naver    |-> [plain |-> 0, food |-> 3, korean |-> 2, person |-> -2,
                    name |-> 0, recipe |-> 2, extra |-> 0],
      pexels   |-> [plain |-> 0, food |-> 2, korean |-> 3, person |-> 0,
                    name |-> 4, recipe |-> 0, extra |-> 1],
      pixabay  |-> [plain |-> 0, food |-> 2, korean |-> 3, person |-> 0,
                    name |-> 4, recipe |-> 0, extra |-> 1],
      unsplash |-> [plain |-> 0, food |-> 3, korean |-> 3, person |-> -2,
                    name |-> 4, recipe |-> 2, extra |-> 0] ]

\* the score Naver gives to a url
HostScore(host) ==
    IF host \in BlogHosts THEN 10
    ELSE IF host = "pinimg.com" THEN 1
    ELSE 0

relevanceScore(a, item) ==
    TextScore[a][item.text] + (IF a = "naver" THEN HostScore(item.host) ELSE 0)

\* variant: of the items with the highest score the last one
BestIndexLastOfTies(scores) ==
    CHOOSE b \in 1..Len(scores) :
        /\ \A k \in 1..Len(scores) : scores[k] <= scores[b]
        /\ \A k \in (b + 1)..Len(scores) : scores[k] < scores[b]

\* items.sort((a, b) => b.relevanceScore - a.relevanceScore)[0]: the sort is
\* stable, so of the items with the highest score the first one
BestIndex(scores) ==
    CHOOSE b \in 1..Len(scores) :
        /\ \A k \in 1..Len(scores) : scores[k] <= scores[b]
        /\ \A k \in 1..(b - 1) : scores[k] < scores[b]

\* variant: a score of 4 is still medium
AccuracyMediumBelowFive(a, item, score) ==
    IF a \in {"pexels", "pixabay"}
    THEN (IF score >= 5 THEN "high" ELSE IF score < 2 THEN "low" ELSE "medium")
    ELSE IF a = "naver" /\ item.host \in BlogHosts THEN "high"
    ELSE IF score < 2 THEN "low"
    ELSE IF score < 5 THEN "medium"
    ELSE "high"

\* accuracy of the item an adapter chose: Pexels and Pixabay by the score
\* (part_003:296-297, 371-372), Naver high for a blog host and else by the
\* score (part_003:211-219), Unsplash by the score (part_002:148-149)
AdapterAccuracy(a, item, score) ==
    IF a \in {"pexels", "pixabay"}
    THEN (IF score >= 5 THEN "high" ELSE IF score < 2 THEN "low" ELSE "medium")
    ELSE IF a = "naver" /\ item.host \in BlogHosts THEN "high"
    ELSE IF score < 2 THEN "low"
    ELSE IF score < 4 THEN "medium"
    ELSE "high"

\* what an adapter makes of one result set: the best item, which Naver drops
\* when its score is negative or its host excluded
PickBest(a, items) ==
    IF items = <<>> THEN None
    ELSE LET scores == [k \in 1..Len(items) |-> relevanceScore(a, items[k])]
             b == BestIndex(scores)
         IN  IF a = "naver" /\ (scores[b] < 0 \/ items[b].host \in ExcludedHosts)
             THEN None
             ELSE Some([ index |-> b, url |-> items[b].host, score |-> scores[b],
                         accuracy |-> AdapterAccuracy(a, items[b], scores[b]) ])

InitAdapter(a) ==
    /\ adapter = a
    /\ adQuery = 1
    /\ adItems = None
    /\ adOut = None

\* what a query is answered with: a result set, or nothing when the request
\* failed or its body could not be read
AdapterReplies ==
    {[failed |-> TRUE, items |-> <<>>]}
    \cup {[failed |-> FALSE, items |-> items] : items \in ResultSets}

\* the next query of the adapter's loop is answered
AdapterQuery ==
    /\ adOut = None
    /\ adItems = None
    /\ adQuery <= QueryCount[adapter]
    /\ \E reply \in AdapterReplies : adItems' = Some(reply)
    /\ UNCHANGED <<adapter, adQuery, adOut>>

\* the result set gave an item: it is returned; a failed Unsplash request
\* ends the search with null
AdapterReturn ==
    /\ adOut = None
    /\ IsSome(adItems)
    /\ IF Val(adItems).failed
       THEN adapter = "unsplash" /\ adOut' = Some(None)
       ELSE /\ IsSome(PickBest(adapter, Val(adItems).items))
            /\ adOut' = Some(PickBest(adapter, Val(adItems).items))
    /\ UNCHANGED <<adapter, adQuery, adItems>>

\* the result set gave nothing, or the request of another adapter failed: the
\* loop goes on with the next query
AdapterContinue ==
    /\ adOut = None
    /\ IsSome(adItems)
    /\ IF Val(adItems).failed
       THEN adapter # "unsplash"
       ELSE ~IsSome(PickBest(adapter, Val(adItems).items))
    /\ adQuery' = adQuery + 1
    /\ adItems' = None
    /\ UNCHANGED <<adapter, adOut>>

\* no query gave an item: return null
AdapterReturnNull ==
    /\ adOut = None
    /\ adItems = None
    /\ adQuery > QueryCount[adapter]
    /\ adOut' = Some(None)
    /\ UNCHANGED <<adapter, adQuery, adItems>>

-----------------------------------------------------------------------------
(* The analyze-menu route under requests that overlap                       *)
(*                                                                          *)
(* Every await of checkUsageLimit, of the handler and of analyzeKoreanMenu  *)
(* is a point where another request may run: each store call is one step.   *)
(* The image search touches no store and is taken with the step it follows. *)

Handlers == {1, 2}

\* a photo not sent before, and the first of the photos sent before
OverlapImages == {"imgA", EarlierImages[1]}

\* who sends them: the user on the free plan, or the anonymous session
OverlapRequesters ==
    {[userId |-> Some("u1"), sessionId |-> None],
     [userId |-> None, sessionId |-> Some("s1")]}

OverlapRequests == [image : Optional(OverlapImages), who : OverlapRequesters]

\* what the vision model answers in these requests: nothing, too many items,
\* not a Korean menu, a Korean menu with one name the table does not hold
OverlapOcrReplies ==
    {None} \cup
    { Some([ isKoreanMenu   |-> Some(k),
             extractedNames |-> Some(<<"bibim bap">>),
             totalDetected  |-> d,
             usage          |-> [prompt_tokens |-> 0, completion_tokens |-> 0,
                                 total_tokens |-> 0] ]) :
        k \in BOOLEAN, d \in {None, Some(FoodLimit + 1)} }

\* the image search finds a Naver candidate that validates
OverlapImgEnv ==
    [NoImageEnv EXCEPT !.accuracy = "medium",
                       !.naver = Some([url |-> <<"naver.jpg">>, head |-> "image"])]

OverlapImage == ParseImageResult(searchKoreanFood(OverlapImgEnv).ret)

\* a handler that serves no request
IdleHandler ==
    [ hpc |-> "Idle", req |-> None, usageCount |-> None, cached |-> None,
      names |-> <<>>, idx |-> 0, aiData |-> None, value |-> None,
      saved |-> None, response |-> None ]

InitOverlap(usageCount) ==
    /\ handlers = [h \in Handlers |-> IdleHandler]
    /\ served = [who \in OverlapRequesters |-> usageCount]
    /\ started = 0

\* res.status(...).json(...): the handler is done and its locals are gone;
\* a result counts as served
HandlerRespond(h, rec, r) ==
    /\ handlers' = [handlers EXCEPT ![h] = [IdleHandler EXCEPT !.hpc = "Responded",
                                                              !.req = rec.req,
                                                              !.response = Some(r)]]
    /\ served' = IF r.status = 200
                 THEN [served EXCEPT ![rec.req.who] = @ + 1]
                 ELSE served

\* the for-of loop of the handler's analysis moves to position i
HandlerLoopTo(rec, i) ==
    [rec EXCEPT !.idx = i, !.aiData = None,
                !.hpc = IF i <= Len(rec.names) THEN "Find" ELSE "Saving"]

\* a request arrives while others may be in flight; the handlers are taken
\* in their order
HandlerReceive(h) ==
    /\ handlers[h].hpc \in {"Idle", "Responded"}
    /\ \A g \in Handlers : g < h => handlers[g].hpc # "Idle"
    /\ started < MaxOverlap
    /\ started' = started + 1
    /\ \E r \in OverlapRequests :
          handlers' = [handlers EXCEPT ![h] = [IdleHandler EXCEPT !.hpc = "Gate",
                                                                  !.req = r]]
    /\ UNCHANGED <<foods, menuAnalyses, users, served>>

\* checkUsageLimit: storage.getUsageCount, the comparison, req.analysisContext
HandlerGate(h) ==
    LET rec == handlers[h]
        usageCount == getUsageCount(users, menuAnalyses, rec.req.who)
    IN  /\ rec.hpc = "Gate"
        /\ \/ HandlerRespond(h, rec, ServerErrorResponse)
           \/ IF UsageLimitReached(usageCount, rec.req.who, users)
              THEN HandlerRespond(h, rec, UsageLimitResponse)
              ELSE /\ handlers' = [handlers EXCEPT ![h] =
                                     [rec EXCEPT !.hpc = "Handler",
                                                 !.usageCount = Some(usageCount)]]
                   /\ UNCHANGED served
        /\ UNCHANGED <<foods, menuAnalyses, users, started>>

\* the handler reads the image and storage.getCachedAnalysisByImageHash answers
HandlerLookup(h) ==
    LET rec == handlers[h]
    IN  /\ rec.hpc = "Handler"
        /\ IF ~IsSome(rec.req.image)
           THEN HandlerRespond(h, rec, NoImageResponse)
           ELSE \/ HandlerRespond(h, rec, AnalysisErrorResponse(StoreError))
                \/ LET row == getCachedAnalysisByImageHash(menuAnalyses,
                                                           SHA256(Val(rec.req.image)))
                   IN  /\ handlers' = [handlers EXCEPT ![h] =
                                         [rec EXCEPT !.cached = row,
                                                     !.hpc = IF IsSome(row) THEN "CacheHit"
                                                             ELSE "Extracting"]]
                       /\ UNCHANGED served
        /\ UNCHANGED <<foods, menuAnalyses, users, started>>

\* variant: a result from the cache is not counted
HandlerServeCachedUncounted(h) ==
    LET rec == handlers[h]
    IN  /\ rec.hpc = "CacheHit"
        /\ HandlerRespond(h, rec, CachedResponse(Val(rec.cached)))
        /\ UNCHANGED <<foods, menuAnalyses, users, started>>

\* cache hit: storage.incrementUserUsage for a user, then the stored row
HandlerServeCached(h) ==
    LET rec == handlers[h]
    IN  /\ rec.hpc = "CacheHit"
        /\ \/ /\ IsSome(rec.req.who.userId)
              /\ HandlerRespond(h, rec, AnalysisErrorResponse(StoreError))
              /\ UNCHANGED users
           \/ /\ users' = incrementUserUsage(users, rec.req.who)
              /\ HandlerRespond(h, rec, CachedResponse(Val(rec.cached)))
        /\ UNCHANGED <<foods, menuAnalyses, started>>

\* analyzeKoreanMenu: extractKoreanFoodNames answers, the checks before the loop
HandlerExtract(h) ==
    LET rec == handlers[h]
    IN  /\ rec.hpc = "Extracting"
        /\ \E reply \in OverlapOcrReplies :
              IF ~IsSome(reply)
              THEN HandlerRespond(h, rec,
                      AnalysisErrorResponse(Error("Failed to analyze menu", None)))
              ELSE LET ocr == extractKoreanFoodNames(Val(reply))
                   IN  IF FoodLimitExceeded(ocr.totalDetected)
                       THEN HandlerRespond(h, rec,
                               AnalysisErrorResponse(Error("FOOD_LIMIT_ERROR",
                                                           ocr.totalDetected)))
                       ELSE /\ UNCHANGED served
                            /\ handlers' = [handlers EXCEPT ![h] =
                                 IF NotKoreanMenu(ocr.isKoreanMenu)
                                 THEN [rec EXCEPT !.hpc = "Saving",
                                          !.value = Some([isKoreanMenu |-> FALSE,
                                                          dishes |-> <<>>,
                                                          tokenUsage |-> ocr.tokenUsage])]
                                 ELSE HandlerLoopTo(
                                        [rec EXCEPT !.names = ocr.extractedNames,
                                           !.value = Some([isKoreanMenu |-> TRUE,
                                                           dishes |-> <<>>,
                                                           tokenUsage |-> ocr.tokenUsage])],
                                        1)]
        /\ UNCHANGED <<foods, menuAnalyses, users, started>>

\* storage.findKoreanFood answers; a stored name is pushed with its image
HandlerFind(h) ==
    LET rec == handlers[h]
    IN  /\ rec.hpc = "Find"
        /\ \/ handlers' = [handlers EXCEPT ![h] = HandlerLoopTo(rec, rec.idx + 1)]
           \/ \E found \in findKoreanFood(foods, rec.names[rec.idx]) :
                 handlers' = [handlers EXCEPT ![h] =
                    IF IsSome(found)
                    THEN HandlerLoopTo(
                           [rec EXCEPT !.value = Some([Val(rec.value) EXCEPT !.dishes =
                               PushDish(@, DishFromStore(Val(found), OverlapImage))])],
                           rec.idx + 1)
                    ELSE [rec EXCEPT !.hpc = "Generate"]]
        /\ UNCHANGED <<foods, menuAnalyses, users, served, started>>

\* getFoodDetailsFromAI answers and the image url goes into aiData
HandlerGenerate(h) ==
    LET rec == handlers[h]
    IN  /\ rec.hpc = "Generate"
        /\ \E reply \in AiReplies :
              handlers' = [handlers EXCEPT ![h] =
                 IF ~IsSome(reply) THEN HandlerLoopTo(rec, rec.idx + 1)
                 ELSE [rec EXCEPT !.hpc = "Create",
                          !.aiData = Some([getFoodDetailsFromAI(Val(reply))
                                             EXCEPT !.imageUrl = OverlapImage.imageUrl])]]
        /\ UNCHANGED <<foods, menuAnalyses, users, served, started>>

\* storage.createKoreanFood answers and the dish is pushed
HandlerCreate(h) ==
    LET rec == handlers[h]
    IN  /\ rec.hpc = "Create"
        /\ \/ /\ handlers' = [handlers EXCEPT ![h] = HandlerLoopTo(rec, rec.idx + 1)]
              /\ UNCHANGED foods
           \/ LET table == createKoreanFood(foods, Val(rec.aiData))
                  savedFood == table[Len(table)]
                  dish == DishFromAI(savedFood, Val(rec.aiData), OverlapImage)
              IN  /\ foods' = table
                  /\ handlers' = [handlers EXCEPT ![h] =
                        HandlerLoopTo(
                          [rec EXCEPT !.value = Some(
                              [Val(rec.value) EXCEPT !.dishes = PushDish(@, dish),
                                                     !.tokenUsage = AddAiUsage(@)])],
                          rec.idx + 1)]
        /\ UNCHANGED <<menuAnalyses, users, served, started>>

\* storage.createMenuAnalysis
HandlerSave(h) ==
    LET rec == handlers[h]
    IN  /\ rec.hpc = "Saving"
        /\ \/ /\ HandlerRespond(h, rec, AnalysisErrorResponse(StoreError))
              /\ UNCHANGED menuAnalyses
           \/ /\ menuAnalyses' = createMenuAnalysis(menuAnalyses, rec.req, Val(rec.value))
              /\ handlers' = [handlers EXCEPT ![h] =
                    [rec EXCEPT !.hpc = "Counting",
                                !.saved = Some(menuAnalyses'[Len(menuAnalyses')])]]
              /\ UNCHANGED served
        /\ UNCHANGED <<foods, users, started>>

\* storage.incrementUserUsage after the analysis, then res.json(response)
HandlerCount(h) ==
    LET rec == handlers[h]
    IN  /\ rec.hpc = "Counting"
        /\ \/ /\ IsSome(rec.req.who.userId)
              /\ HandlerRespond(h, rec, AnalysisErrorResponse(StoreError))
              /\ UNCHANGED users
           \/ /\ users' = incrementUserUsage(users, rec.req.who)
              /\ HandlerRespond(h, rec, FreshResponse(Val(rec.saved), Val(rec.value)))
        /\ UNCHANGED <<foods, menuAnalyses, started>>

-----------------------------------------------------------------------------
(* Stripe webhook: POST /api/stripe-webhook *)

\* deliveries looked at
MaxEvents == 3

Customers == {"cus_1", "cus_2"}

\* users rows: two that went through a checkout, one that never did
InitialAccounts ==
    [u \in {"u1", "u2", "u3"} |->
        CASE u = "u1" -> [stripeCustomerId |-> Some("cus_1"), isPremium |-> FALSE]
          [] u = "u2" -> [stripeCustomerId |-> Some("cus_2"), isPremium |-> TRUE]
          [] OTHER -> [stripeCustomerId |-> None, isPremium |-> FALSE]]

\* event.type and event.data.object, reduced to the fields the switch reads:
\* payment intents, paid invoices, and the other types; the customer of a
\* charge.dispute.created is the one of the charge stripe.charges.retrieve
\* returns
StripeEvents ==
    [type : {"payment_intent.succeeded"}, customer : Optional(Customers),
     metadataType : Optional({"day-pass"}), userId : Optional({"u1"}),
     subscription : {None}]
    \cup [type : {"invoice.payment_succeeded"}, customer : Optional(Customers),
          metadataType : {None}, userId : {None},
          subscription : Optional({"sub_1"})]
    \cup [type : {"invoice.payment_failed", "customer.subscription.deleted",
                  "charge.refunded", "charge.dispute.created",
                  "customer.updated"},
          customer : Optional(Customers),
          metadataType : {None}, userId : {None}, subscription : {None}]

\* variant: a refund leaves the premium flag as it is
WebhookUpdateKeepsOnRefund(e) ==
    CASE e.type = "payment_intent.succeeded" ->
            IF e.metadataType = Some("day-pass") /\ IsSome(e.userId)
            THEN Some([customer |-> e.customer, isPremium |-> TRUE])
            ELSE None
      [] e.type = "invoice.payment_succeeded" ->
            IF IsSome(e.subscription) \/ IsSome(e.customer)
            THEN Some([customer |-> e.customer, isPremium |-> TRUE])
            ELSE None
      [] e.type \in {"invoice.payment_failed", "customer.subscription.deleted"} ->
            Some([customer |-> e.customer, isPremium |-> FALSE])
      [] e.type = "charge.dispute.created" ->
            IF IsSome(e.customer)
            THEN Some([customer |-> e.customer, isPremium |-> FALSE])
            ELSE None
      [] OTHER -> None

\* switch (event.type): the updateUserPremiumStatus call it makes (optional)
WebhookUpdate(e) ==
    CASE e.type = "payment_intent.succeeded" ->
            IF e.metadataType = Some("day-pass") /\ IsSome(e.userId)
            THEN Some([customer |-> e.customer, isPremium |-> TRUE])
            ELSE None
      [] e.type = "invoice.payment_succeeded" ->
            IF IsSome(e.subscription) \/ IsSome(e.customer)
            THEN Some([customer |-> e.customer, isPremium |-> TRUE])
            ELSE None
      [] e.type \in {"invoice.payment_failed", "customer.subscription.deleted"} ->
            Some([customer |-> e.customer, isPremium |-> FALSE])
      [] e.type \in {"charge.refunded", "charge.dispute.created"} ->
            IF IsSome(e.customer)
            THEN Some([customer |-> e.customer, isPremium |-> FALSE])
            ELSE None
      [] OTHER -> None

\* UPDATE users SET isPremium WHERE stripeCustomerId = $1 (a null $1 matches
\* no row)
updateUserPremiumStatus(table, stripeCustomerId, isPremium) ==
    [u \in DOMAIN table |->
        IF IsSome(stripeCustomerId) /\ table[u].stripeCustomerId = stripeCustomerId
        THEN [table[u] EXCEPT !.isPremium = isPremium]
        ELSE table[u]]

InitWebhook ==
    /\ accounts = InitialAccounts
    /\ webhookLog = <<>>

\* stripe.webhooks.constructEvent throws: 400 before the event is looked at
WebhookRejected ==
    /\ Len(webhookLog) < MaxEvents
    /\ webhookLog' = Append(webhookLog, [status |-> 400, event |-> None])
    /\ UNCHANGED accounts

\* the switch runs to its end: { received: true }
WebhookProcessed ==
    /\ Len(webhookLog) < MaxEvents
    /\ \E e \in StripeEvents :
          LET update == WebhookUpdate(e)
          IN  /\ accounts' = IF IsSome(update)
                             THEN updateUserPremiumStatus(accounts, Val(update).customer,
                                                          Val(update).isPremium)
                             ELSE accounts
              /\ webhookLog' = Append(webhookLog, [status |-> 200, event |-> Some(e)])

\* stripe.charges.retrieve or the update throws: 500, nothing written
WebhookFailed ==
    /\ Len(webhookLog) < MaxEvents
    /\ \E e \in StripeEvents :
          IsSome(WebhookUpdate(e)) \/ e.type = "charge.dispute.created"
    /\ webhookLog' = Append(webhookLog, [status |-> 500, event |-> None])
    /\ UNCHANGED accounts

-----------------------------------------------------------------------------
(* Image proxy: GET /api/proxy-image *)

\* retryConfigs.length
RetryCount == 3

\* host names are the sequences of their '.'-separated labels
allowedDomains ==
    {<<"blogfiles", "naver", "net">>, <<"postfiles", "naver", "net">>,
     <<"phinf", "naver", "net">>, <<"blog", "naver", "com">>,
     <<"cafe", "naver", "com">>, <<"images", "unsplash", "com">>,
     <<"images", "pexels", "com">>, <<"cdn", "pixabay", "com">>,
     <<"i", "pinimg", "com">>, <<"pinimg", "com">>, <<"s", "pinimg", "com">>,
     <<"media", "pinimg", "com">>}

\* imageUrl.hostname of the requests looked at
Hostnames ==
    {<<"pinimg", "com">>, <<"i", "pinimg", "com">>,
     <<"shopping", "phinf", "naver", "net">>, <<"evilpinimg", "com">>,
     <<"pinimg", "com", "evil", "io">>, <<"naver", "net">>, <<"example", "com">>}

\* req.query.url: absent, a string new URL() rejects, or a URL with a host name
ProxyRequests ==
    [url : Optional({[valid |-> FALSE, hostname |-> <<>>]}
                    \cup [valid : {TRUE}, hostname : Hostnames])]

\* hostname.endsWith('.' + domain)
EndsWithDomain(hostname, domain) ==
    /\ Len(hostname) > Len(domain)
    /\ SubSeq(hostname, Len(hostname) - Len(domain) + 1, Len(hostname)) = domain

\* allowedDomains.some(domain => hostname === domain || hostname.endsWith('.' + domain))
isAllowed(hostname) ==
    \E domain \in allowedDomains :
        hostname = domain \/ EndsWithDomain(hostname, domain)

\* what one fetch(url, config) gives: it throws, or a response with its ok
\* flag, its content-type header (optional, a sequence of its '/'-separated
\* parts) and whether arrayBuffer() resolves
FetchOutcomes ==
    {[threw |-> TRUE, ok |-> FALSE, contentType |-> None, body |-> FALSE],
     [threw |-> FALSE, ok |-> FALSE, contentType |-> None, body |-> FALSE],
     [threw |-> FALSE, ok |-> TRUE, contentType |-> Some(<<"text", "html">>),
      body |-> FALSE]}
    \cup [threw : {FALSE}, ok : {TRUE},
          contentType : {None, Some(<<"image", "png">>)}, body : BOOLEAN]

\* response.headers.get('content-type') || 'image/jpeg'
ContentTypeOf(o) ==
    IF IsSome(o.contentType) THEN Val(o.contentType) ELSE <<"image", "jpeg">>

\* contentType.startsWith('image/')
StartsWithImage(contentType) ==
    Len(contentType) > 1 /\ Head(contentType) = "image"

\* the loop body reaches res.send
AttemptServes(o) ==
    ~o.threw /\ o.ok /\ StartsWithImage(ContentTypeOf(o)) /\ o.body

InitProxy ==
    /\ proxyReq = None
    /\ proxyFetches = <<>>
    /\ proxyStatus = None

\* the handler up to its first fetch: 400, 500 (new URL throws), 403 or the loop
ProxyReceive ==
    /\ proxyReq = None
    /\ \E r \in ProxyRequests :
          /\ proxyReq' = Some(r)
          /\ proxyStatus' =
                IF ~IsSome(r.url) THEN Some(400)
                ELSE IF ~Val(r.url).valid THEN Some(500)
                ELSE IF ~isAllowed(Val(r.url).hostname) THEN Some(403)
                ELSE None
    /\ UNCHANGED proxyFetches

\* one turn of the loop over retryConfigs; after the last turn the 404
ProxyFetch ==
    /\ IsSome(proxyReq)
    /\ proxyStatus = None
    /\ Len(proxyFetches) < RetryCount
    /\ \E o \in FetchOutcomes :
          /\ proxyFetches' = Append(proxyFetches, o)
          /\ proxyStatus' =
                IF AttemptServes(o) THEN Some(200)
                ELSE IF Len(proxyFetches') = RetryCount THEN Some(404)
                ELSE None
    /\ UNCHANGED proxyReq

-----------------------------------------------------------------------------
(* One run of analyzeKoreanMenu *)

Init ==
    /\ InitPipeline
    /\ InitAdapter("naver")
    /\ wfEnv = NoImageEnv
    /\ wfOut = None
    /\ InitRoute(0)
    /\ InitOverlap(0)
    /\ InitWebhook
    /\ InitProxy

Next ==
    \/ StartAnalysis /\ UNCHANGED <<imageVars, routeVars, overlapVars, webhookVars, proxyVars>>
    \/ ExtractNames /\ UNCHANGED <<imageVars, routeVars, overlapVars, webhookVars, proxyVars>>
    \/ FindFood /\ UNCHANGED <<imageVars, routeVars, overlapVars, webhookVars, proxyVars>>
    \/ AiDetails /\ UNCHANGED <<imageVars, routeVars, overlapVars, webhookVars, proxyVars>>
    \/ ImageSearch /\ UNCHANGED <<imageVars, routeVars, overlapVars, webhookVars, proxyVars>>
    \/ CreateFood /\ UNCHANGED <<imageVars, routeVars, overlapVars, webhookVars, proxyVars>>
    \/ ReturnResult /\ UNCHANGED <<imageVars, routeVars, overlapVars, webhookVars, proxyVars>>

Spec == Init /\ [][Next]_vars

\* every awaited call returns or fails: a step that can be taken is taken
SpecLive == Init /\ [][Next]_vars /\ WF_vars(Next)

-----------------------------------------------------------------------------
(* The image waterfall on its own *)

InitImage ==
    /\ InitPipeline
    /\ InitAdapter("naver")
    /\ wfEnv \in ImgEnvs
    /\ wfOut = None
    /\ InitRoute(0)
    /\ InitOverlap(0)
    /\ InitWebhook
    /\ InitProxy

\* one call of unsplashService.searchKoreanFood
RunImageSearch ==
    /\ wfOut = None
    /\ wfOut' = Some(searchKoreanFood(wfEnv))
    /\ UNCHANGED wfEnv
    /\ UNCHANGED adapterVars
    /\ UNCHANGED pipelineVars
    /\ UNCHANGED routeVars
    /\ UNCHANGED <<overlapVars, webhookVars, proxyVars>>

NextImage == RunImageSearch

SpecImage == InitImage /\ [][NextImage]_vars

-----------------------------------------------------------------------------
(* The analyze-menu route on its own: requests that do not overlap *)

InitRouteSpec ==
    /\ InitPipeline
    /\ InitAdapter("naver")
    /\ wfEnv = NoImageEnv
    /\ wfOut = None
    /\ \E usageCount \in {0, UsageLimit - 1} : InitRoute(usageCount)
    /\ InitOverlap(0)
    /\ InitWebhook
    /\ InitProxy

NextRoute ==
    \/ ReceiveRequest /\ UNCHANGED <<pipelineVars, imageVars, overlapVars, webhookVars, proxyVars>>
    \/ CheckUsageLimit /\ UNCHANGED <<pipelineVars, imageVars, overlapVars, webhookVars, proxyVars>>
    \/ LookupCache /\ UNCHANGED <<pipelineVars, imageVars, overlapVars, webhookVars, proxyVars>>
    \/ ServeCached /\ UNCHANGED <<pipelineVars, imageVars, overlapVars, webhookVars, proxyVars>>
    \/ Analyze /\ UNCHANGED <<pipelineVars, imageVars, overlapVars, webhookVars, proxyVars>>
    \/ SaveAnalysis /\ UNCHANGED <<pipelineVars, imageVars, overlapVars, webhookVars, proxyVars>>
    \/ CountUsage /\ UNCHANGED <<pipelineVars, imageVars, overlapVars, webhookVars, proxyVars>>
    \/ FinishRequest /\ UNCHANGED <<pipelineVars, imageVars, overlapVars, webhookVars, proxyVars>>

SpecRoute == InitRouteSpec /\ [][NextRoute]_vars

-----------------------------------------------------------------------------
(* The search of one image adapter on its own *)

InitAdapters ==
    /\ InitPipeline
    /\ InitRoute(0)
    /\ InitOverlap(0)
    /\ InitWebhook
    /\ InitProxy
    /\ wfEnv = NoImageEnv
    /\ wfOut = None
    /\ \E a \in Adapters : InitAdapter(a)

NextAdapters ==
    \/ AdapterQuery /\ UNCHANGED <<pipelineVars, routeVars, wfEnv, wfOut, overlapVars, webhookVars, proxyVars>>
    \/ AdapterReturn /\ UNCHANGED <<pipelineVars, routeVars, wfEnv, wfOut, overlapVars, webhookVars, proxyVars>>
    \/ AdapterContinue /\ UNCHANGED <<pipelineVars, routeVars, wfEnv, wfOut, overlapVars, webhookVars, proxyVars>>
    \/ AdapterReturnNull /\ UNCHANGED <<pipelineVars, routeVars, wfEnv, wfOut, overlapVars, webhookVars, proxyVars>>

SpecAdapters == InitAdapters /\ [][NextAdapters]_vars

-----------------------------------------------------------------------------
(* Requests that overlap *)

OverlapFrame ==
    UNCHANGED <<pc, ocrResult, idx, step, foodData, aiData, image, dishes,
                totalTokenUsage, result, thrown, trace, imageVars, rpc, req,
                cachedAnalysis, analysis, response, foodLookups, handled, caught,
                webhookVars, proxyVars>>

InitOverlapSpec ==
    /\ InitPipeline
    /\ InitAdapter("naver")
    /\ wfEnv = NoImageEnv
    /\ wfOut = None
    /\ InitRoute(UsageLimit - 1)
    /\ InitOverlap(UsageLimit - 1)
    /\ InitWebhook
    /\ InitProxy

NextOverlap ==
    \/ \E h \in Handlers : HandlerReceive(h) /\ OverlapFrame
    \/ \E h \in Handlers : HandlerGate(h) /\ OverlapFrame
    \/ \E h \in Handlers : HandlerLookup(h) /\ OverlapFrame
    \/ \E h \in Handlers : HandlerServeCached(h) /\ OverlapFrame
    \/ \E h \in Handlers : HandlerExtract(h) /\ OverlapFrame
    \/ \E h \in Handlers : HandlerFind(h) /\ OverlapFrame
    \/ \E h \in Handlers : HandlerGenerate(h) /\ OverlapFrame
    \/ \E h \in Handlers : HandlerCreate(h) /\ OverlapFrame
    \/ \E h \in Handlers : HandlerSave(h) /\ OverlapFrame
    \/ \E h \in Handlers : HandlerCount(h) /\ OverlapFrame

SpecOverlap == InitOverlapSpec /\ [][NextOverlap]_vars

-----------------------------------------------------------------------------
(* Stripe webhook deliveries, one after the other *)

NextWebhook ==
    \/ WebhookRejected /\ UNCHANGED <<pipelineVars, imageVars, routeVars, overlapVars, proxyVars>>
    \/ WebhookProcessed /\ UNCHANGED <<pipelineVars, imageVars, routeVars, overlapVars, proxyVars>>
    \/ WebhookFailed /\ UNCHANGED <<pipelineVars, imageVars, routeVars, overlapVars, proxyVars>>

SpecWebhook == Init /\ [][NextWebhook]_vars

-----------------------------------------------------------------------------
(* One request to the image proxy *)

NextProxy ==
    \/ ProxyReceive /\ UNCHANGED <<pipelineVars, imageVars, routeVars, overlapVars, webhookVars>>
    \/ ProxyFetch /\ UNCHANGED <<pipelineVars, imageVars, routeVars, overlapVars, webhookVars>>

SpecProxy == Init /\ [][NextProxy]_vars

-----------------------------------------------------------------------------
(* Reading the history of a run *)

\* positions of the extracted names, once the OCR step has answered
Positions == IF IsSome(ocrResult) THEN 1..Len(extractedNames) ELSE {}

Events(op, i) == {k \in 1..Len(trace) : trace[k].op = op /\ trace[k].idx = i}

Happened(op, i, res) ==
    \E k \in 1..Len(trace) :
        trace[k].op = op /\ trace[k].idx = i /\ trace[k].res = res

ResolutionOps == {"find", "ai", "image", "create", "push"}

\* the resolution of the name at position i ended in the catch of the loop body
DishResolutionFailed(i) == \E k \in 1..Len(trace) : trace[k].idx = i /\ trace[k].res = "error"

IsPush(e) == e.op = "push"

PushEvents == SelectSeq(trace, IsPush)

Descriptive(d) ==
    [ nameKorean |-> d.nameKorean, nameEnglish |-> d.nameEnglish,
      descriptionEnglish |-> d.descriptionEnglish, calories |-> d.calories ]

ReturnedKorean == pc = "Done" /\ IsSome(result) /\ Val(result).isKoreanMenu

-----------------------------------------------------------------------------
(* Properties of analyzeKoreanMenu *)

\* C1: when the OCR step reports totalDetected > 3 the run ends Rejected with
\* the FOOD_LIMIT_ERROR, and no store lookup, generative call, image search,
\* store create or push has happened for any extracted name.
C1_TooManyItemsRejected ==
    (IsSome(ocrResult) /\ IsSome(Val(ocrResult).totalDetected)
                       /\ Val(Val(ocrResult).totalDetected) > FoodLimit)
    => /\ pc = "Rejected"
       /\ thrown = Some(Error("FOOD_LIMIT_ERROR", Val(ocrResult).totalDetected))
       /\ result = None
       /\ \A k \in 1..Len(trace) : trace[k].op \notin ResolutionOps
       /\ foods = <<SeedFood>>
       /\ dishes = <<>>

\* a Korean menu with names on it and too many items was rejected
C1_RejectedWithNames ==
    /\ pc = "Rejected"
    /\ Val(ocrResult).isKoreanMenu = Some(TRUE)
    /\ Len(extractedNames) = FoodLimit
    /\ Val(ocrResult).totalDetected = Some(FoodLimit + 1)

\* C2: every dish has (confidence 1.0, source database) or (confidence 0.8,
\* source ai); a pushed dish is the first exactly when the lookup of its name
\* hit, the second exactly when it missed, and then a row for it was created
\* before the push.
C2_ConfidenceFollowsSource ==
    /\ \A k \in 1..Len(dishes) :
          /\ \/ dishes[k].confidence = ConfidenceDatabase /\ dishes[k].source = "database"
             \/ dishes[k].confidence = ConfidenceAI /\ dishes[k].source = "ai"
          /\ \E e \in 1..Len(trace) : IsPush(trace[e]) /\ trace[e].dish = Some(dishes[k])
    /\ IsSome(result) => \A k \in 1..Len(Val(result).dishes) :
          \E j \in 1..Len(dishes) : dishes[j] = Val(result).dishes[k]
    /\ \A e \in 1..Len(trace) : IsPush(trace[e]) =>
          LET d == Val(trace[e].dish)
              i == trace[e].idx
          IN  /\ (d.source = "database") <=> Happened("find", i, "hit")
              /\ (d.source = "ai") <=> Happened("find", i, "miss")
              /\ d.source = "ai" =>
                    /\ \E c \in Events("create", i) : trace[c].res = "ok" /\ c < e
                    /\ \E r \in 2..Len(foods) :
                          /\ foods[r].nameKorean = d.nameKorean
                          /\ foods[r].nameEnglish = d.nameEnglish

\* a run returned one dish of each kind
C2_BothKindsReturned ==
    /\ ReturnedKorean
    /\ \E k \in 1..Len(Val(result).dishes) : Val(result).dishes[k].source = "database"
    /\ \E k \in 1..Len(Val(result).dishes) : Val(result).dishes[k].source = "ai"

\* C3: while one name is resolved getFoodDetailsFromAI is called zero times
\* when the lookup hit and exactly once when it missed.
C3_GenerativeCallCount ==
    \A i \in Positions :
        /\ Happened("find", i, "hit") => Events("ai", i) = {}
        /\ (Happened("find", i, "miss") /\ ~(pc = "Resolving" /\ idx = i /\ step = "ai"))
              => Cardinality(Events("ai", i)) = 1
        /\ Events("ai", i) # {} => Happened("find", i, "miss")

\* a run resolved a stored name and a missing one to the end
C3_HitAndMissResolved ==
    /\ ReturnedKorean
    /\ \E i \in Positions : Happened("find", i, "hit") /\ Events("push", i) # {}
    /\ \E i \in Positions : Happened("find", i, "miss") /\ Events("push", i) # {}

\* C4: once the generative fallback resolved a name that was not in the
\* store, a lookup of that name finds a row.
C4_StoredUnderExtractedName ==
    \A i \in Positions :
        Happened("create", i, "ok")
            => None \notin findKoreanFood(foods, extractedNames[i])

\* C5: on a Korean menu that passed the limit, the returned dish list is as
\* long as the number of extracted names whose resolution met no error.
C5_LengthIsResolvedCount ==
    ReturnedKorean
    => Len(Val(result).dishes)
          = Cardinality({i \in Positions : ~DishResolutionFailed(i)})

\* a run returned fewer dishes than names, and more than one
C5_SomeFailedSomeResolved ==
    /\ ReturnedKorean
    /\ Len(Val(result).dishes) >= 2
    /\ Len(Val(result).dishes) < Len(extractedNames)

\* C6: an error while one name is resolved does not end the run: nothing is
\* thrown, the name gets no dish, every later name is still looked up, and
\* the run returns with isKoreanMenu = true.
C6_FailureSkipsOneName ==
    \A i \in Positions : DishResolutionFailed(i) =>
        /\ pc \in {"Resolving", "Aggregating", "Done"}
        /\ thrown = None
        /\ Events("push", i) = {}
        /\ Len(dishes) = Len(PushEvents)
        /\ idx > i
        /\ \A j \in Positions : (i < j /\ j < idx) => Events("find", j) # {}
        /\ pc = "Done" => /\ ReturnedKorean
                          /\ idx = Len(extractedNames) + 1
                          /\ Val(result).dishes = dishes

\* a run returned after the lookup, the text model and the insert each failed
\* for one name and a later name was resolved
C6_EachFailureThenSuccess ==
    /\ ReturnedKorean
    /\ \E i \in Positions : Happened("find", i, "error")
    /\ \E i \in Positions : Happened("ai", i, "error")
    /\ \E i \in Positions : Happened("create", i, "error")
    /\ Events("push", Len(extractedNames)) # {}

\* C7: the dish list is in extraction order: its k-th dish is the k-th dish
\* pushed, and the pushes were made for increasing positions of the names.
C7_ExtractionOrder ==
    /\ Len(dishes) = Len(PushEvents)
    /\ \A k \in 1..Len(PushEvents) : PushEvents[k].dish = Some(dishes[k])
    /\ \A k \in 1..(Len(PushEvents) - 1) : PushEvents[k].idx < PushEvents[k + 1].idx
    /\ ReturnedKorean => Val(result).dishes = dishes

\* a run returned two different dishes around a name that failed
C7_TwoDishesAroundFailure ==
    /\ ReturnedKorean
    /\ Len(Val(result).dishes) = 2
    /\ Val(result).dishes[1] # Val(result).dishes[2]
    /\ DishResolutionFailed(2)
    /\ Len(extractedNames) = 3

\* C8: the OCR step hands at most 3 names to the loop, so at most 3 names
\* are looked up and at most 3 dishes are collected.
C8_AtMostThreeNames ==
    /\ pc \in {"Resolving", "Aggregating", "Done"} => Cardinality(Positions) <= FoodLimit
    /\ Cardinality({i \in Positions : Events("find", i) # {}}) <= FoodLimit
    /\ Len(dishes) <= FoodLimit

\* C9: resolving a name that is in the store never changes the table, and
\* two such resolutions of one name give the same descriptive fields.
C9_RepeatedHitSameFields ==
    /\ Len(foods) = 1 + Cardinality({i \in Positions : Happened("create", i, "ok")})
    /\ foods[1] = SeedFood
    /\ \A a, b \in 1..Len(PushEvents) :
          LET da == Val(PushEvents[a].dish)
              db == Val(PushEvents[b].dish)
          IN  ( /\ da.source = "database" /\ db.source = "database"
                /\ extractedNames[PushEvents[a].idx] = extractedNames[PushEvents[b].idx] )
              => Descriptive(da) = Descriptive(db)

\* C14: when the OCR step does not report a Korean menu and the limit is not
\* exceeded, the run is Done with isKoreanMenu = false, no dish and the usage
\* of the OCR step, and no resolution step has run.
C14_NotKoreanMenuIsDone ==
    ( /\ IsSome(ocrResult)
      /\ Val(ocrResult).isKoreanMenu # Some(TRUE)
      /\ ~( IsSome(Val(ocrResult).totalDetected)
            /\ Val(Val(ocrResult).totalDetected) > FoodLimit ) )
    => /\ pc = "Done"
       /\ thrown = None
       /\ result = Some([isKoreanMenu |-> FALSE, dishes |-> <<>>,
                         tokenUsage |-> Val(ocrResult).tokenUsage])
       /\ \A k \in 1..Len(trace) : trace[k].op \notin ResolutionOps
       /\ foods = <<SeedFood>>

\* the OCR step said isKoreanMenu = false and still listed names
C14_NotKoreanWithNames ==
    /\ pc = "Done"
    /\ Val(ocrResult).isKoreanMenu = Some(FALSE)
    /\ Val(ocrResult).totalDetected = Some(FoodLimit)
    /\ Len(extractedNames) = FoodLimit

\* names resolved by the generative fallback: a dish with source ai was pushed
AiResolutions == {i \in Positions : \E k \in Events("push", i) :
                                        Val(trace[k].dish).source = "ai"}

\* C15: the returned usage is the usage of the OCR step plus the fixed
\* estimate (200, 400, 600 tokens, 0.004 USD, 0.006 AUD) for every name the
\* generative fallback resolved; a stored name adds nothing.
C15_UsageIsOcrPlusEstimates ==
    (pc = "Done" /\ IsSome(result)) =>
        LET ocr == Val(ocrResult).tokenUsage
            n   == Cardinality(AiResolutions)
            u   == Val(result).tokenUsage
        IN  /\ u.prompt_tokens = ocr.prompt_tokens + AiPromptTokens * n
            /\ u.completion_tokens = ocr.completion_tokens + AiCompletionTokens * n
            /\ u.total_tokens = ocr.total_tokens + AiTotalTokens * n
            /\ u.cost_usd = ocr.cost_usd + AiCostUsd * n
            /\ u.cost_aud = ocr.cost_aud + AiCostAud * n

\* a run returned after two generative resolutions, a hit, and a name whose
\* generated record could not be saved
C15_TwoEstimatesAdded ==
    /\ ReturnedKorean
    /\ Cardinality(AiResolutions) = 2
    /\ \E i \in Positions : Happened("find", i, "hit") /\ Events("push", i) # {}
    /\ \E i \in Positions : Happened("create", i, "error")

\* the transitions of the orchestrator's machine; the per-dish loop of a menu
\* without names is entered and left in one step
ListedTransitions ==
    { <<"Start", "Extracting">>, <<"Extracting", "Rejected">>,
      <<"Extracting", "Done">>, <<"Extracting", "Resolving">>,
      <<"Extracting", "Aggregating">>, <<"Resolving", "Resolving">>,
      <<"Resolving", "Aggregating">>, <<"Aggregating", "Done">> }

StepIn(transitions) == \E t \in transitions : pc = t[1] /\ pc' = t[2]

\* C16 as stated: a run takes only the listed transitions and ends in
\* Rejected or Done.
C16_ListedMachineOnly ==
    /\ [][StepIn(ListedTransitions)]_vars
    /\ <>(pc \in {"Rejected", "Done"})

\* C16: a run takes only the listed transitions or, when the OCR step fails,
\* the transition from Extracting to Failed, and it ends in Rejected, Done or
\* Failed.
C16_MachineWithFailure ==
    /\ [][StepIn(ListedTransitions \cup {<<"Extracting", "Failed">>})]_vars
    /\ <>(pc \in {"Rejected", "Done", "Failed"})

\* the OCR step failed and analyzeKoreanMenu threw its own error
C16_AnalysisFailed ==
    /\ pc = "Failed"
    /\ thrown = Some(Error("Failed to analyze menu", None))
    /\ ocrResult = None

-----------------------------------------------------------------------------
(* Properties of the image waterfall *)

NaverValidates(env) == IsSome(env.naver) /\ Val(env.naver).head = "image"

\* C10: when the Naver adapter gives a candidate that passes validateImageUrl,
\* the search returns that candidate and the only calls made are the Naver
\* search and the HEAD request for its candidate.
C10_NaverCandidateWins ==
    (IsSome(wfOut) /\ NaverValidates(wfEnv))
    => /\ Val(wfOut).ret = Some(Val(wfEnv.naver).url \o <<wfEnv.accuracy>>)
       /\ Val(wfOut).calls = <<Call("search", "naver"), Call("head", "naver")>>

\* the search ran with a valid Naver candidate while every other provider
\* had a valid candidate of its own
C10_EveryProviderReady ==
    /\ IsSome(wfOut)
    /\ NaverValidates(wfEnv)
    /\ wfEnv.pexels.cand = Some([url |-> <<"pexels.jpg">>, head |-> "image"])
    /\ wfEnv.pixabay.cand = Some([url |-> <<"pixabay.jpg">>, head |-> "image"])
    /\ \A q \in 1..AlternativeQueryLimit : IsSome(wfEnv.alt[q])
    /\ wfEnv.unsplash.answer = "found"

\* the candidates the providers hold during one search, each with the answer
\* a HEAD request for its url gets
Candidates(env) ==
    (IF IsSome(env.naver) THEN {Val(env.naver)} ELSE {})
    \cup (IF IsSome(env.pexels.cand) THEN {Val(env.pexels.cand)} ELSE {})
    \cup (IF IsSome(env.pixabay.cand) THEN {Val(env.pixabay.cand)} ELSE {})
    \cup {Val(env.alt[q]) : q \in {r \in 1..AlternativeQueryLimit : IsSome(env.alt[r])}}
    \cup (IF env.unsplash.answer = "found"
          THEN {[url |-> <<"unsplash.jpg">>, head |-> env.unsplash.head]} ELSE {})

\* the imageUrl the dish gets from the outcome of the search
AttachedUrl == ParseImageResult(Val(wfOut).ret).imageUrl

\* C11: when no candidate of any provider passes the HEAD validation, the
\* dish gets no image url.
C11_NoValidCandidateNoImage ==
    (IsSome(wfOut) /\ Candidates(wfEnv) # {}
                   /\ \A c \in Candidates(wfEnv) : c.head # "image")
    => AttachedUrl = None

\* C12: the url attached to a dish is the url of a candidate whose HEAD
\* request answered 200 with an image content type.
C12_AttachedUrlWasValidated ==
    (IsSome(wfOut) /\ IsSome(AttachedUrl))
    => \E c \in Candidates(wfEnv) : c.head = "image" /\ c.url = <<Val(AttachedUrl)>>

PexelsValidates(env) == IsSome(searchPexels(env)) /\ Val(env.pexels.cand).head = "image"

PixabayValidates(env) == IsSome(searchPixabay(env)) /\ Val(env.pixabay.cand).head = "image"

Searched(provider) == \E k \in 1..Len(Val(wfOut).calls) :
                          Val(wfOut).calls[k] = Call("search", provider)

Priority == [naver |-> 1, pexels |-> 2, pixabay |-> 3]

\* C13: the providers are asked in the order Naver, Pexels, Pixabay, each only
\* after every earlier one gave nothing that validates, and the candidate of
\* the first one in that order that validates is the result.
C13_FixedProviderOrder ==
    IsSome(wfOut) =>
        LET calls == Val(wfOut).calls
            ret   == Val(wfOut).ret
        IN  /\ \A k, l \in 1..Len(calls) :
                  ( /\ k < l
                    /\ calls[k].provider \in DOMAIN Priority
                    /\ calls[l].provider \in DOMAIN Priority )
                  => Priority[calls[k].provider] <= Priority[calls[l].provider]
            /\ Searched("naver")
            /\ Searched("pexels") => ~NaverValidates(wfEnv)
            /\ Searched("pixabay") => ~NaverValidates(wfEnv) /\ ~PexelsValidates(wfEnv)
            /\ NaverValidates(wfEnv) => ret = Some(FormatImageResult(
                   [url |-> Val(wfEnv.naver).url, accuracy |-> wfEnv.accuracy]))
            /\ (~NaverValidates(wfEnv) /\ PexelsValidates(wfEnv))
                  => ret = Some(<<"pexels.jpg", wfEnv.accuracy>>)
            /\ (~NaverValidates(wfEnv) /\ ~PexelsValidates(wfEnv) /\ PixabayValidates(wfEnv))
                  => ret = Some(<<"pixabay.jpg", wfEnv.accuracy>>)

\* the search went past a Naver and a Pexels candidate that did not validate
\* and returned the Pixabay candidate
C13_PixabayAfterTwoRejected ==
    /\ IsSome(wfOut)
    /\ IsSome(wfEnv.naver) /\ Val(wfEnv.naver).head = "error"
    /\ IsSome(wfEnv.pexels.cand) /\ Val(wfEnv.pexels.cand).head = "other"
    /\ PixabayValidates(wfEnv)
    /\ Val(wfOut).ret = Some(<<"pixabay.jpg", wfEnv.accuracy>>)

\* alternative queries whose candidate validates
ValidAlternatives(env) ==
    {q \in 1..AlternativeQueryLimit :
        IsSome(env.alt[q]) /\ Val(env.alt[q]).head = "image"}

AlternativeSearches ==
    {k \in 1..Len(Val(wfOut).calls) : Val(wfOut).calls[k] = Call("search", "naver_alt")}

\* C24: when neither Naver nor Pexels nor Pixabay gave a candidate that
\* validates, alternative Naver queries are sent, at most two of them, and the
\* candidate of the first alternative query that validates is returned.
C24_AlternativesAfterThreeProviders ==
    ( /\ IsSome(wfOut)
      /\ ~NaverValidates(wfEnv) /\ ~PexelsValidates(wfEnv) /\ ~PixabayValidates(wfEnv) )
    => /\ AlternativeSearches # {}
       /\ Cardinality(AlternativeSearches) <= AlternativeQueryLimit
       /\ ValidAlternatives(wfEnv) # {} =>
             LET q == CHOOSE q \in ValidAlternatives(wfEnv) :
                          \A r \in ValidAlternatives(wfEnv) : q <= r
             IN  Val(wfOut).ret = Some(Val(wfEnv.alt[q]).url \o <<wfEnv.accuracy>>)

\* C25: when searchKoreanFoodImage returns none and the Unsplash adapter can
\* search (access key and English name present), the caller sends the generic
\* query 'korean food traditional cuisine' and returns one of its results; the
\* generic query is sent only after searchKoreanFoodImage returned none.
C25_GenericQueryAfterWaterfall ==
    IsSome(wfOut) =>
        /\ ( /\ searchKoreanFoodImage(wfEnv).ret = None
             /\ wfEnv.unsplash.key
             /\ wfEnv.unsplash.englishName )
           => /\ Searched("unsplash_generic")
              /\ \E g \in searchGenericKoreanFood(wfEnv) : Val(wfOut).ret = g.ret
        /\ Searched("unsplash_generic") => searchKoreanFoodImage(wfEnv).ret = None

\* the position the latest call belongs to; the calls of an earlier position
\* are all made before the loop moves on, and the log only grows
LatestPosition == IF trace = <<>> THEN {} ELSE {trace[Len(trace)].idx}

\* every event of the set first comes before every event of the set second
Before(first, second) == \A k \in first : \A l \in second : k < l

\* C26: for a name the store does not hold, the generative call comes first,
\* then the image search, which starts with the generated data at hand, then
\* the store create; the created row carries the image url the search gave (or
\* none), and the dish is pushed only after a create that succeeded. Stated
\* for the name the latest call was made for, at every state of the run.
C26_GenerateThenImageThenCreate ==
    /\ (pc = "Resolving" /\ step \in {"image", "create"} /\ ~IsSome(foodData))
          => IsSome(aiData)
    /\ (pc = "Resolving" /\ step = "create")
          => Val(aiData).imageUrl = Val(image).imageUrl
    /\ \A i \in LatestPosition :
          LET generated == Events("ai", i)
              searched  == Events("image", i)
              created   == Events("create", i)
              pushed    == Events("push", i)
          IN  generated # {} =>
                /\ Before(generated, searched)
                /\ Before(searched, created)
                /\ Before(created, pushed)
                /\ searched # {} => \E k \in generated : trace[k].res = "ok"
                /\ \A k \in pushed :
                      /\ \E l \in created : trace[l].res = "ok"
                      /\ \E r \in 2..Len(foods) :
                            /\ foods[r].nameKorean = Val(trace[k].dish).nameKorean
                            /\ foods[r].imageUrl = Val(trace[k].dish).imageUrl

\* a generated dish was returned with the image the search found, and its row
\* in the store holds the same url
C26_GeneratedDishWithImage ==
    /\ ReturnedKorean
    /\ Len(foods) = 2
    /\ foods[2].imageUrl = Some("naver.jpg")
    /\ \E k \in 1..Len(Val(result).dishes) :
          /\ Val(result).dishes[k].source = "ai"
          /\ Val(result).dishes[k].imageUrl = Some("naver.jpg")

\* some call of the search went to the provider
Called(provider) == \E k \in 1..Len(Val(wfOut).calls) :
                        Val(wfOut).calls[k].provider = provider

\* C27: an image provider that is unavailable never ends the search: without
\* its API key Pexels, Pixabay or Unsplash gets no request and gives no
\* candidate; after a provider that gave nothing or whose candidate could not
\* be fetched the next provider with a key is asked; and the search always
\* returns, with an image or with none, none when the last provider fails.
C27_UnavailableProviderSkipped ==
    IsSome(wfOut) =>
        /\ ~wfEnv.pexels.key => ~Called("pexels") /\ searchPexels(wfEnv) = None
        /\ ~wfEnv.pixabay.key => ~Called("pixabay") /\ searchPixabay(wfEnv) = None
        /\ ~wfEnv.unsplash.key => ~Called("unsplash")
        /\ (~NaverValidates(wfEnv) /\ wfEnv.pexels.key) => Searched("pexels")
        /\ (~NaverValidates(wfEnv) /\ ~PexelsValidates(wfEnv) /\ wfEnv.pixabay.key)
              => Searched("pixabay")
        /\ ( /\ searchKoreanFoodImage(wfEnv).ret = None
             /\ wfEnv.unsplash.key /\ wfEnv.unsplash.englishName )
              => Searched("unsplash")
        /\ (searchKoreanFoodImage(wfEnv).ret = None /\ wfEnv.unsplash.answer # "found")
              => Val(wfOut).ret = None
        /\ Val(wfOut).ret # None =>
              \E c \in Candidates(wfEnv) : Val(wfOut).ret = Some(c.url \o <<wfEnv.accuracy>>)

\* a search without the Pexels key in which the Naver image could not be
\* fetched, Pixabay found nothing and the Unsplash request failed: it ended
\* with no image
C27_EveryProviderDown ==
    /\ IsSome(wfOut)
    /\ IsSome(wfEnv.naver) /\ Val(wfEnv.naver).head = "error"
    /\ ~wfEnv.pexels.key
    /\ wfEnv.pixabay.key /\ wfEnv.pixabay.cand = None
    /\ wfEnv.unsplash.key /\ wfEnv.unsplash.answer = "error"
    /\ Val(wfOut).ret = None
    /\ Called("unsplash")

\* C31: the steps of one run never overlap: the OCR step is answered before
\* the first resolution begins, the run works on one name at a time, and the
\* resolution of a name begins only when the one before it has pushed its dish
\* or failed.  Stated for the latest call, at every state of the run.
C31_StepsAreSequential ==
    /\ trace # <<>> => trace[1].op = "ocr"
    /\ Len(trace) >= 2 =>
          LET n == Len(trace)
              e == trace[n]
              before == trace[n - 1]
          IN  /\ e.op \in ResolutionOps
              /\ trace[1].res = "ok"
              /\ e.idx \in Positions
              /\ IF e.op = "find"
                 THEN /\ before.idx = e.idx - 1
                      /\ before.op \in {"ocr", "push"} \/ before.res = "error"
                 ELSE /\ before.idx = e.idx
                      /\ before.op # "push"
                      /\ before.res # "error"
    /\ pc = "Resolving" =>
          /\ idx \in Positions
          /\ \A k \in 1..Len(trace) : trace[k].idx <= idx
          /\ step = "find" <=> Events("find", idx) = {}

\* a run resolved two names one after the other
C31_SecondNameAfterFirst ==
    /\ pc = "Resolving" /\ idx = 2 /\ step = "ai"
    /\ Events("push", 1) # {}
    /\ Happened("find", 2, "miss")

\* C34: the run never updates or deletes a stored food record: the table
\* changes only by one more row at its end, written by the create step of a
\* name the lookup missed from the generated data, and every row that was
\* there stays as it was.
C34_FoodRecordsOnlyGrow ==
    [][foods' # foods =>
          /\ Len(foods') = Len(foods) + 1
          /\ \A r \in 1..Len(foods) : foods'[r] = foods[r]
          /\ pc = "Resolving" /\ step = "create"
          /\ foodData = None /\ IsSome(aiData)
          /\ Happened("find", idx, "miss") /\ Happened("ai", idx, "ok")
          /\ foods'[Len(foods')].nameKorean = Val(aiData).nameKorean
          /\ foods'[Len(foods')].nameEnglish = Val(aiData).nameEnglish
          /\ foods'[Len(foods')].id \notin {foods[r].id : r \in 1..Len(foods)}]_vars

\* a run added two records, one of them under a name the table already held
C34_RecordAddedBesideSameName ==
    /\ Len(foods) = 3
    /\ foods[1] = SeedFood
    /\ \E r \in 2..3 : foods[r].nameKorean = SeedFood.nameKorean

\* C19: the OCR step returns a result only for a response of the expected
\* shape: a result it returned carries the isKoreanMenu flag of the response,
\* and a run whose response was empty or unparseable has no result and fails.
C19_ResultOnlyFromExpectedShape ==
    /\ IsSome(ocrResult) => IsSome(Val(ocrResult).isKoreanMenu)
    /\ pc = "Failed" => ~IsSome(ocrResult) /\ IsSome(thrown)

-----------------------------------------------------------------------------
(* The analyze-menu route *)

Answered == rpc = "Responded" /\ IsSome(response)

CaughtMessage(m) == IsSome(caught) /\ Val(caught).message = m

\* analyzeKoreanMenu returned and no later step of the handler threw
AnalysisReturned == IsSome(analysis) /\ ~IsSome(caught)

RejectsTooMany ==
    /\ rpc = "Analyzing"
    /\ IsSome(caught')
    /\ Val(caught').message = "FOOD_LIMIT_ERROR"

\* the steps of a request before analyzeKoreanMenu is called
BeforeAnalysis == rpc \in {"Idle", "Gate", "Handler"}

\* C18: a request rejected with TooManyItems touches no store: up to the call
\* and in the rejecting call no name is handed to the per-dish loop, no Menu
\* Analysis Record is created and no usage count is incremented; the response
\* carries no dish and the handler holds no analysis.
C18_RejectionTouchesNoStore ==
    [][ /\ (BeforeAnalysis \/ RejectsTooMany) =>
              UNCHANGED <<menuAnalyses, users, foodLookups>>
        /\ RejectsTooMany =>
              /\ analysis' = None
              /\ Val(response').dishes = None
              /\ Val(response').id = None ]_vars

\* a signed-in user whose earlier photo was stored is rejected with the count:
\* one record and one counted use, those of the earlier request
C18_RejectedAfterStoredAnalysis ==
    /\ Answered
    /\ CaughtMessage("FOOD_LIMIT_ERROR")
    /\ IsSome(Val(req).who.userId)
    /\ Len(menuAnalyses) = 1
    /\ handled = 1
    /\ Len(foodLookups) = 2

\* rows of the menu analysis table that carry the hash
RowsWithHash(imageHash) ==
    {i \in 1..Len(menuAnalyses) : menuAnalyses[i].imageHash = imageHash}

RequestHash == SHA256(Val(Val(req).image))

\* C20: with requests one after the other the table holds at most one Menu
\* Analysis Record per image hash; a request answered from the cache returns
\* that one record, and a request answered with a fresh analysis returns the
\* record it created, the only one of its image.
C20_OneRecordPerImageHash ==
    /\ \A i, j \in 1..Len(menuAnalyses) :
          menuAnalyses[i].imageHash = menuAnalyses[j].imageHash => i = j
    /\ (Answered /\ Val(response).status = 200) =>
          /\ Cardinality(RowsWithHash(RequestHash)) = 1
          /\ \A i \in RowsWithHash(RequestHash) :
                Val(response).id = Some(menuAnalyses[i].id)
          /\ Val(response).cached <=> IsSome(cachedAnalysis)

\* a photo was analysed and stored, and the next request, the same photo, is
\* answered from the cache: one record stays
C20_SecondRequestIsCacheHit ==
    /\ Answered
    /\ handled = 1
    /\ Val(response).status = 200
    /\ Val(response).cached
    /\ Len(menuAnalyses) = 1

\* the request being served found a stored record for its image
CacheHit == rpc # "Idle" /\ IsSome(cachedAnalysis)

\* C21: a request that finds a Menu Analysis Record for its image's hash never
\* calls analyzeKoreanMenu (no OCR, no dish resolution, no image search),
\* creates and changes no record, and is answered with the record's
\* isKoreanMenu, dishes and token usage and cached = true; while a record exists
\* for the hash no analysis of that image runs.
C21_CacheHitOnlyReadsRecord ==
    /\ [](CacheHit =>
            /\ rpc \in {"CacheHit", "Responded"}
            /\ analysis = None
            /\ \E i \in RowsWithHash(RequestHash) : menuAnalyses[i] = Val(cachedAnalysis))
    /\ []((rpc \in {"Analyzing", "Saving"}) => RowsWithHash(RequestHash) = {})
    /\ []((Answered /\ CacheHit /\ ~IsSome(caught)) =>
            /\ Val(response).status = 200
            /\ Val(response).cached
            /\ Val(response).isKoreanMenu = Some(Val(cachedAnalysis).isKoreanMenu)
            /\ Val(response).dishes = Some(Val(cachedAnalysis).detectedDishes)
            /\ Val(response).tokenUsage = Some(Val(cachedAnalysis).tokenUsage))
    /\ [][CacheHit => UNCHANGED <<menuAnalyses, foodLookups, analysis>>]_vars

\* the second request sent a photo whose record holds a dish and was answered
\* with that dish from the cache
C21_StoredDishServedFromCache ==
    /\ Answered
    /\ CacheHit
    /\ Val(response).cached
    /\ Val(response).isKoreanMenu = Some(TRUE)
    /\ Val(response).dishes # Some(<<>>)
    /\ Len(foodLookups) = 1

\* who sent the request being served
Requester == Val(req).who

\* uses counted for the requester: the user's counter, or the records of the
\* anonymous session
UsesCounted ==
    IF IsSome(Requester.userId) THEN users[Val(Requester.userId)].freeUsageCount
    ELSE Cardinality({i \in 1..Len(menuAnalyses) :
                         menuAnalyses[i].sessionId = Requester.sessionId})

\* the requester is at the free limit and is neither premium nor the admin
OverFreeLimit ==
    /\ UsesCounted >= UsageLimit
    /\ Requester.userId # Some(AdminUserId)
    /\ IsSome(Requester.userId) => Val(Requester.userId) \notin PremiumUsers

\* C22: checkUsageLimit answers 402 exactly to a requester at the free limit
\* who is anonymous or not premium and is not the admin; everyone else goes on
\* to the handler, premium users and the admin with any count; a request
\* answered 402 has run no analysis, and neither the gate nor the end of the
\* request creates a record or changes a usage count.
C22_UsageGate ==
    /\ []((Answered /\ Val(response).status = 402) =>
            /\ OverFreeLimit
            /\ Val(response).isLimitReached
            /\ analysis = None
            /\ cachedAnalysis = None)
    /\ []((rpc = "Handler") => ~OverFreeLimit)
    /\ [][(rpc = "Gate" /\ ~IsSome(caught')) =>
            IF OverFreeLimit
            THEN rpc' = "Responded" /\ Val(response').status = 402
            ELSE rpc' = "Handler"]_vars
    /\ [][(rpc \in {"Gate", "Responded"}) =>
            UNCHANGED <<menuAnalyses, users, foodLookups, analysis>>]_vars

\* the free user's third use was counted by the first request, and the second
\* request is answered 402
C22_FreeUserStopped ==
    /\ Answered
    /\ Val(response).status = 402
    /\ Requester.userId = Some("u1")
    /\ users["u1"].freeUsageCount = UsageLimit
    /\ handled = 1

\* the record the request being served has just created
CreatedRecord == menuAnalyses[Len(menuAnalyses)]

\* C23: the Menu Analysis Record created for a request stores the names the OCR
\* step extracted, all of them and in OCR order; stated for the first request
\* of a Korean menu, whose names are all the per-dish loop has received.
C23_RecordKeepsOcrNames ==
    (rpc = "Counting" /\ handled = 0 /\ Val(analysis).isKoreanMenu) =>
        CreatedRecord.extractedFoodNames = foodLookups

-----------------------------------------------------------------------------
(* The image adapters *)

\* the result set the adapter is looking at
AnsweredItems == Val(adItems).items

\* the adapter has a result set before it
Answering == adOut = None /\ IsSome(adItems) /\ ~Val(adItems).failed

\* the adapter returned an item of the result set
Returned == IsSome(adOut) /\ IsSome(Val(adOut))

ReturnedItem == Val(Val(adOut))

ScoreAt(k) == relevanceScore(adapter, AnsweredItems[k])

\* items Naver may return: host not excluded, score not negative
Eligible ==
    {k \in 1..Len(AnsweredItems) :
        AnsweredItems[k].host \notin ExcludedHosts /\ ScoreAt(k) >= 0}

\* C28: Naver never returns a url of an excluded host, and from a result set
\* with an item that is not excluded and has a score of 0 or more it returns
\* the highest-scoring item among those not excluded.
C28_BestNonExcludedReturned ==
    /\ []((adapter = "naver" /\ Returned) => ReturnedItem.url \notin ExcludedHosts)
    /\ [][(adapter = "naver" /\ Answering /\ Eligible # {}) =>
            /\ IsSome(adOut') /\ IsSome(Val(adOut'))
            /\ Val(Val(adOut')).index \in Eligible
            /\ \A k \in Eligible : ScoreAt(k) <= Val(Val(adOut')).score]_vars

\* C29: in every adapter, of the items that share the highest score the one
\* that comes first in the provider's order is returned.
C29_FirstOfTiesReturned ==
    (Returned /\ IsSome(adItems)) =>
        /\ \A k \in 1..Len(AnsweredItems) : ScoreAt(k) <= ScoreAt(ReturnedItem.index)
        /\ \A k \in 1..(ReturnedItem.index - 1) : ScoreAt(k) < ScoreAt(ReturnedItem.index)

C29_TieOnHighestScore ==
    /\ Returned /\ IsSome(adItems)
    /\ Len(AnsweredItems) = 2
    /\ AnsweredItems[1] # AnsweredItems[2]
    /\ ScoreAt(1) = ScoreAt(2)
    /\ ReturnedItem.index = 1
    /\ ReturnedItem.url = AnsweredItems[1].host

\* C30: the accuracy of a Naver result is high for a url of a Korean blog
\* host; otherwise low for a score below 2, medium for 2 or 3 and high from
\* 4 on; an item with a negative score is never returned.
C30_NaverAccuracyTiers ==
    (adapter = "naver" /\ Returned /\ IsSome(adItems)) =>
        LET score == ScoreAt(ReturnedItem.index)
        IN  /\ score >= 0
            /\ ReturnedItem.score = score
            /\ ReturnedItem.accuracy =
                 IF ReturnedItem.url \in BlogHosts THEN "high"
                 ELSE IF score < 2 THEN "low"
                 ELSE IF score <= 3 THEN "medium"
                 ELSE "high"

C30_HighWithoutBlogHost ==
    /\ adapter = "naver" /\ Returned /\ IsSome(adItems)
    /\ ReturnedItem.url \notin BlogHosts
    /\ ScoreAt(ReturnedItem.index) = 4
    /\ ReturnedItem.accuracy = "high"

-----------------------------------------------------------------------------
(* Requests that overlap *)

FreeUser == [userId |-> Some("u1"), sessionId |-> None]

AnonymousSession == [userId |-> None, sessionId |-> Some("s1")]

\* C32: two requests that resolve the same unknown name at once can both miss
\* and both store a record; every record of the table is a whole one: each
\* write adds one row, all of it from the generated data of one request, and
\* changes no other row.
C32_DuplicatesAreWholeRecords ==
    /\ [](/\ foods[1] = SeedFood
          /\ \A r \in 1..Len(foods) : foods[r].id = r /\ foods[r].nameKorean \in Names)
    /\ [][foods' # foods =>
            /\ Len(foods') = Len(foods) + 1
            /\ \A r \in 1..Len(foods) : foods'[r] = foods[r]
            /\ \E h \in Handlers :
                  /\ handlers[h].hpc = "Create"
                  /\ handlers'[h].hpc # "Create"
                  /\ LET a == Val(handlers[h].aiData)
                     IN  foods'[Len(foods')] =
                            [ id |-> Len(foods) + 1, nameKorean |-> a.nameKorean,
                              nameEnglish |-> a.nameEnglish, calories |-> a.calories,
                              imageUrl |-> a.imageUrl ]]_vars

\* both requests missed the name and both stored a record under it
C32_TwoRecordsOfOneName ==
    /\ Len(foods) = 3
    /\ foods[2].nameKorean = "bibim bap"
    /\ foods[3].nameKorean = "bibim bap"
    /\ \A h \in Handlers : handlers[h].hpc = "Saving"

\* C33: two requests with the same image that overlap can both miss the cache
\* and both store a record; a lookup of the hash then still gives one record,
\* the one created last.
C33_LookupGivesNewestRecord ==
    [][\A h \in Handlers :
          (handlers[h].hpc = "Handler" /\ handlers'[h].hpc = "CacheHit") =>
              LET rows == RowsWithHash(SHA256(Val(handlers[h].req.image)))
              IN  /\ rows # {}
                  /\ IsSome(handlers'[h].cached)
                  /\ Val(handlers'[h].cached) \in {menuAnalyses[i] : i \in rows}
                  /\ \A i \in rows : menuAnalyses[i].id <= Val(handlers'[h].cached).id]_vars

\* the hash of the new photo has two records and a later lookup got the second
C33_LookupAfterTwoRecords ==
    /\ Cardinality(RowsWithHash(SHA256("imgA"))) = 2
    /\ \E h \in Handlers :
          /\ handlers[h].hpc = "CacheHit"
          /\ handlers[h].req.image = Some("imgA")
          /\ \A i \in RowsWithHash(SHA256("imgA")) :
                menuAnalyses[i].id <= Val(handlers[h].cached).id

\* C35: the usage count of a user grows by one with each successful result
\* the user receives, from the cache or fresh, and with nothing else.
C35_CountIsResultsReceived ==
    \A u \in Users :
        users[u].freeUsageCount =
            IF u = "u1" THEN served[FreeUser] ELSE UsageLimit - 1

\* the user got a result from the cache and it was counted
C35_CachedResultCounted ==
    /\ users["u1"].freeUsageCount = UsageLimit
    /\ \E h \in Handlers :
          /\ handlers[h].hpc = "Responded"
          /\ handlers[h].req.who = FreeUser
          /\ Val(handlers[h].response).status = 200
          /\ Val(handlers[h].response).cached

\* C36: a user who is neither premium nor admin never receives more than 3
\* successful results and the user's usage count never exceeds 3, however the
\* user's requests overlap.
C36_FreeUserWithinLimit ==
    /\ served[FreeUser] <= UsageLimit
    /\ users["u1"].freeUsageCount <= UsageLimit

\* C37: an anonymous session receives at most 3 successful results: the count
\* the gate reads for the session is the number of successful results the
\* session has received, those from the cache included.
C37_SessionWithinLimit ==
    /\ [](served[AnonymousSession] <= UsageLimit)
    /\ [][\A h \in Handlers :
            ( /\ handlers[h].hpc = "Gate"
              /\ handlers'[h].hpc = "Handler"
              /\ handlers[h].req.who = AnonymousSession )
            => Val(handlers'[h].usageCount) = served[AnonymousSession]]_vars

-----------------------------------------------------------------------------
(* Stripe webhook *)

\* what an event does to the premium flag of its customer (optional)
PremiumEffect(e) ==
    CASE e.type = "payment_intent.succeeded"
            /\ e.metadataType = Some("day-pass") /\ IsSome(e.userId) -> Some(TRUE)
      [] e.type = "invoice.payment_succeeded" -> Some(TRUE)
      [] e.type \in {"invoice.payment_failed", "customer.subscription.deleted",
                     "charge.refunded", "charge.dispute.created"} -> Some(FALSE)
      [] OTHER -> None

\* positions of the processed events of a customer that affect the flag
AffectingEvents(customer) ==
    {k \in 1..Len(webhookLog) :
        /\ webhookLog[k].status = 200
        /\ Val(webhookLog[k].event).customer = customer
        /\ IsSome(PremiumEffect(Val(webhookLog[k].event)))}

Latest(ks) == CHOOSE k \in ks : \A j \in ks : j <= k

\* C38: after any sequence of webhook events, the isPremium flag of a
\* customer's user is the effect of the last processed event of that customer
\* that affects it (true after a day-pass payment_intent.succeeded with a
\* userId or an invoice.payment_succeeded; false after invoice.payment_failed,
\* customer.subscription.deleted, charge.refunded or charge.dispute.created),
\* the flag it started with when there is none; events of other customers and
\* of other types leave it as it is.
C38_PremiumFollowsLastEvent ==
    \A u \in DOMAIN accounts :
        LET customer == accounts[u].stripeCustomerId
            ks == IF IsSome(customer) THEN AffectingEvents(customer) ELSE {}
        IN  /\ customer = InitialAccounts[u].stripeCustomerId
            /\ accounts[u].isPremium =
                  IF ks = {}
                  THEN InitialAccounts[u].isPremium
                  ELSE Val(PremiumEffect(Val(webhookLog[Latest(ks)].event)))

\* a day pass of cus_1 was activated and then refunded, and an event without
\* effect followed, while cus_2 kept its flag
C38_RefundAfterDayPass ==
    /\ Len(webhookLog) = MaxEvents
    /\ \A k \in 1..MaxEvents : webhookLog[k].status = 200
    /\ Val(webhookLog[1].event).type = "payment_intent.succeeded"
    /\ PremiumEffect(Val(webhookLog[1].event)) = Some(TRUE)
    /\ Val(webhookLog[1].event).customer = Some("cus_1")
    /\ \E k \in 2..MaxEvents :
          /\ Val(webhookLog[k].event).type = "charge.refunded"
          /\ Val(webhookLog[k].event).customer = Some("cus_1")
          /\ \A j \in (k + 1)..MaxEvents :
                PremiumEffect(Val(webhookLog[j].event)) = None
    /\ ~accounts["u1"].isPremium
    /\ accounts["u2"].isPremium

-----------------------------------------------------------------------------
(* Image proxy *)

\* the host name is an allow-listed domain or a subdomain of one
OnAllowList(hostname) ==
    \E k \in 1..Len(hostname) :
        SubSeq(hostname, k, Len(hostname)) \in allowedDomains

\* the fetch returned an ok status with an image content type
ImageAnswer(o) ==
    ~o.threw /\ o.ok /\ IsSome(o.contentType) /\ Head(Val(o.contentType)) = "image"

\* C39: the proxy fetches only for a host name on the allow-list, answers any
\* other host name with 403 without a fetch, makes at most three fetch
\* attempts, stops at the first one that returns an ok status with an image
\* content type, and answers 404 when all attempts fail.
C39_ProxyFetchesAllowedHostsOnly ==
    /\ proxyFetches # <<>> =>
          /\ IsSome(Val(proxyReq).url)
          /\ Val(Val(proxyReq).url).valid
          /\ OnAllowList(Val(Val(proxyReq).url).hostname)
    /\ (/\ IsSome(proxyReq)
        /\ IsSome(Val(proxyReq).url)
        /\ Val(Val(proxyReq).url).valid
        /\ ~OnAllowList(Val(Val(proxyReq).url).hostname)) =>
          proxyStatus = Some(403) /\ proxyFetches = <<>>
    /\ Len(proxyFetches) <= RetryCount
    /\ \A k \in 1..Len(proxyFetches) :
          ImageAnswer(proxyFetches[k]) =>
              k = Len(proxyFetches) /\ proxyStatus = Some(200)
    /\ proxyStatus = Some(200) =>
          proxyFetches # <<>> /\ ImageAnswer(proxyFetches[Len(proxyFetches)])
    /\ proxyStatus = Some(404) <=>
          /\ Len(proxyFetches) = RetryCount
          /\ \A k \in 1..RetryCount : ~ImageAnswer(proxyFetches[k])

====
